---- MODULE Spec2Model ----
(***************************************************************************)
(* A model of emlite-js: the handle table (HandleTable), the value         *)
(* marshaling ABI built on it (the `env` import object of class Emlite),   *)
(* the memory-view synchronizer and the invocation bridge.                 *)
(*                                                                         *)
(* Two builds of the bridge live in the repository and both are modelled:  *)
(*   build = "emlite"  : src/src/emlite.js                                 *)
(*   build = "legacy"  : src/unnamed/part_001 (the earlier bridge, whose   *)
(*                       table HANDLE_MAP is created at module load)       *)
(*                                                                         *)
(* Host values are pairs <<tag, payload>> with payload a sequence of       *)
(* integers: a number's payload is <<n>>, a string's payload is its        *)
(* sequence of UTF-16 code units, an object's or function's payload is     *)
(* <<id>> with id its identity, so that equality of pairs is JavaScript's  *)
(* SameValueZero on the values the model uses.                             *)
(***************************************************************************)
EXTENDS Integers, Sequences, FiniteSets, TLC

\* ------------------------------------------------------------------ bounds
MaxNext == 9
MaxRefs == 2
MaxInits == 2
MaxObjs == 6
MaxRun == 5
PageBytes == 2
MaxPages == 2
MaxIndex == 8
MaxPush == 2

\* ------------------------------------------------------------------ values
Null == <<"null", <<>>>>
Undefined == <<"undefined", <<>>>>
Bool(b) == <<"boolean", <<IF b THEN 1 ELSE 0>>>>
\* A number is kept as two limbs <<hi, lo>>, its value hi * 2^16 + lo with
\* lo in 0 .. 2^16 - 1, so that every 32-bit value has its exact payload.
Limb == 65536
Num(n) == <<"number", <<n \div Limb, n % Limb>>>>
NumW(hi, lo) == <<"number", <<hi, lo>>>>
NumVal(v) == v[2][1] * Limb + v[2][2]
Str(s) == <<"string", s>>
Obj(id) == <<"object", <<id>>>>
Fn(id) == <<"function", <<id>>>>
Sym(id) == <<"symbol", <<id>>>>
NoVal == <<"none", <<>>>>

Tag(v) == v[1]
Payload(v) == v[2]

GlobalThisId == 0
ConsoleId == 1
HostFnId == 2
FirstFreeObj == 3

\* The number of reserved handles and the value each is bound to by the
\* initialisation of the table numbered `e`.
NumReserved == 7
ReservedValue(h, e) ==
  CASE h = 0 -> Null
    [] h = 1 -> Undefined
    [] h = 2 -> Bool(FALSE)
    [] h = 3 -> Bool(TRUE)
    [] h = 4 -> Obj(GlobalThisId)
    [] h = 5 -> Obj(ConsoleId)
    [] h = 6 -> Sym(e)

\* ------------------------------------------------------------ HandleTable
\* A table is a record [h2e, v2h, next]: _h2e maps a handle to its entry
\* {value, refs}, _v2h maps a value to its handle, _next is the counter.
EmptyTable == [h2e |-> <<>>, v2h |-> <<>>, next |-> 0]

MapSet(m, k, x) == [y \in (DOMAIN m) \cup {k} |-> IF y = k THEN x ELSE m[y]]
MapDelete(m, k) == [y \in (DOMAIN m) \ {k} |-> m[y]]

\* A table with a free-list: the smallest number that is not live is issued.
HT_newEntry_Reuse(T, value) ==
  LET h == CHOOSE k \in 0 .. T.next :
             k \notin DOMAIN T.h2e /\ \A j \in 0 .. k - 1 : j \in DOMAIN T.h2e
  IN [h |-> h, threw |-> FALSE,
      T |-> [h2e |-> MapSet(T.h2e, h, [value |-> value, refs |-> 1]),
             v2h |-> MapSet(T.v2h, value, h),
             next |-> IF h = T.next THEN T.next + 1 ELSE T.next]]

HT_newEntry(T, value) ==
  [h |-> T.next, threw |-> FALSE,
   T |-> [h2e |-> MapSet(T.h2e, T.next, [value |-> value, refs |-> 1]),
          v2h |-> MapSet(T.v2h, value, T.next),
          next |-> T.next + 1]]

\* add without the lookup in _v2h: every call allocates.
HT_add_NoDedup(T, value) == HT_newEntry(T, value)

\* ++this._h2e.get(h).refs throws a TypeError when _h2e has no entry for h.
HT_add(T, value) ==
  IF value \in DOMAIN T.v2h
  THEN LET h == T.v2h[value] IN
       IF h \in DOMAIN T.h2e
       THEN [h |-> h, threw |-> FALSE,
             T |-> [T EXCEPT !.h2e[h].refs = @ + 1]]
       ELSE [h |-> -1, threw |-> TRUE, T |-> T]
  ELSE HT_newEntry(T, value)

\* `e.refs-- === 0`: the entry is evicted one call late.
HT_decRef_PostDecrement(T, h) ==
  IF h \notin DOMAIN T.h2e
  THEN [ret |-> FALSE, T |-> T]
  ELSE LET e == T.h2e[h] IN
       IF e.refs = 0
       THEN [ret |-> TRUE,
             T |-> [T EXCEPT !.h2e = MapDelete(T.h2e, h),
                             !.v2h = MapDelete(T.v2h, e.value)]]
       ELSE [ret |-> TRUE, T |-> [T EXCEPT !.h2e[h].refs = @ - 1]]

\* The eviction forgets this._v2h.delete(e.value).
HT_decRef_KeepReverse(T, h) ==
  IF h \notin DOMAIN T.h2e
  THEN [ret |-> FALSE, T |-> T]
  ELSE LET e == T.h2e[h] IN
       IF e.refs - 1 = 0
       THEN [ret |-> TRUE, T |-> [T EXCEPT !.h2e = MapDelete(T.h2e, h)]]
       ELSE [ret |-> TRUE, T |-> [T EXCEPT !.h2e[h].refs = @ - 1]]

HT_decRef(T, h) ==
  IF h \notin DOMAIN T.h2e
  THEN [ret |-> FALSE, T |-> T]
  ELSE LET e == T.h2e[h] IN
       IF e.refs - 1 = 0
       THEN [ret |-> TRUE,
             T |-> [T EXCEPT !.h2e = MapDelete(T.h2e, h),
                             !.v2h = MapDelete(T.v2h, e.value)]]
       ELSE [ret |-> TRUE, T |-> [T EXCEPT !.h2e[h].refs = @ - 1]]

\* An incRef that registers a handle it does not find.
HT_incRef_Resurrect(T, h) ==
  IF h \in DOMAIN T.h2e THEN [T EXCEPT !.h2e[h].refs = @ + 1]
  ELSE [T EXCEPT !.h2e = MapSet(T.h2e, h, [value |-> Undefined, refs |-> 1])]

HT_incRef(T, h) ==
  IF h \in DOMAIN T.h2e THEN [T EXCEPT !.h2e[h].refs = @ + 1] ELSE T

HT_get(T, h) == IF h \in DOMAIN T.h2e THEN T.h2e[h].value ELSE Undefined

RECURSIVE AddReserved(_, _, _)
AddReserved(T, h, e) ==
  IF h = NumReserved THEN T
  ELSE AddReserved(HT_add(T, ReservedValue(h, e)).T, h + 1, e)

\* new HandleTable() followed by the seven add calls.
NewHandleTable(e) == AddReserved(EmptyTable, 0, e)


\* ------------------------------------------------------------- text codecs
Min(a, b) == IF a < b THEN a ELSE b

IsLead(c) == c >= 55296 /\ c <= 56319
IsTrail(c) == c >= 56320 /\ c <= 57343
Replacement == 65533
ByteOrderMark == 65279

\* TextEncoder.encode: UTF-8 of a sequence of UTF-16 code units; a surrogate
\* pair is one code point, a lone surrogate becomes U+FFFD.
EncodeCodePoint(c) ==
  IF c < 128 THEN <<c>>
  ELSE IF c < 2048 THEN <<192 + (c \div 64), 128 + (c % 64)>>
  ELSE IF c < 65536
  THEN <<224 + (c \div 4096), 128 + ((c \div 64) % 64), 128 + (c % 64)>>
  ELSE <<240 + (c \div 262144), 128 + ((c \div 4096) % 64),
         128 + ((c \div 64) % 64), 128 + (c % 64)>>

RECURSIVE Utf8Encode(_)
Utf8Encode(s) ==
  IF s = <<>> THEN <<>>
  ELSE LET c == Head(s) IN
       IF IsLead(c) /\ Len(s) >= 2 /\ IsTrail(s[2])
       THEN EncodeCodePoint(65536 + (c - 55296) * 1024 + (s[2] - 56320))
              \o Utf8Encode(Tail(Tail(s)))
       ELSE IF IsLead(c) \/ IsTrail(c)
       THEN EncodeCodePoint(Replacement) \o Utf8Encode(Tail(s))
       ELSE EncodeCodePoint(c) \o Utf8Encode(Tail(s))

IsCont(b) == b >= 128 /\ b <= 191

\* The code units of one decoded code point.
CodeUnits(cp) ==
  IF cp < 65536 THEN <<cp>>
  ELSE <<55296 + ((cp - 65536) \div 1024), 56320 + ((cp - 65536) % 1024)>>

\* How many continuation bytes the lead byte b asks for (0: none, -1: b is
\* no lead byte) and the range its first continuation byte must lie in.
Utf8Need(b) ==
  IF b < 128 THEN 0
  ELSE IF b >= 194 /\ b <= 223 THEN 1
  ELSE IF b >= 224 /\ b <= 239 THEN 2
  ELSE IF b >= 240 /\ b <= 244 THEN 3
  ELSE -1
Utf8Lower(b) == IF b = 224 THEN 160 ELSE IF b = 240 THEN 144 ELSE 128
Utf8Upper(b) == IF b = 237 THEN 159 ELSE IF b = 244 THEN 143 ELSE 191

\* The UTF-8 decoder of TextDecoder (fatal: false): a malformed sequence
\* gives U+FFFD and decoding goes on at the byte that broke it.
RECURSIVE Utf8DecodeFrom(_, _)
Utf8DecodeFrom(bs, i) ==
  IF i > Len(bs) THEN <<>>
  ELSE LET b == bs[i]
           need == Utf8Need(b) IN
       IF need = 0 THEN <<b>> \o Utf8DecodeFrom(bs, i + 1)
       ELSE IF need = -1 THEN <<Replacement>> \o Utf8DecodeFrom(bs, i + 1)
       ELSE IF i + 1 > Len(bs) \/ bs[i + 1] < Utf8Lower(b)
                               \/ bs[i + 1] > Utf8Upper(b)
       THEN <<Replacement>> \o Utf8DecodeFrom(bs, i + 1)
       ELSE IF need = 1
       THEN <<(b - 192) * 64 + (bs[i + 1] - 128)>> \o Utf8DecodeFrom(bs, i + 2)
       ELSE IF i + 2 > Len(bs) \/ ~IsCont(bs[i + 2])
       THEN <<Replacement>> \o Utf8DecodeFrom(bs, i + 2)
       ELSE IF need = 2
       THEN <<(b - 224) * 4096 + (bs[i + 1] - 128) * 64 + (bs[i + 2] - 128)>>
              \o Utf8DecodeFrom(bs, i + 3)
       ELSE IF i + 3 > Len(bs) \/ ~IsCont(bs[i + 3])
       THEN <<Replacement>> \o Utf8DecodeFrom(bs, i + 3)
       ELSE CodeUnits((b - 240) * 262144 + (bs[i + 1] - 128) * 4096
                        + (bs[i + 2] - 128) * 64 + (bs[i + 3] - 128))
              \o Utf8DecodeFrom(bs, i + 4)

\* TextDecoder.decode drops a byte order mark at the start (ignoreBOM: false).
StripBOM(s) == IF s /= <<>> /\ Head(s) = ByteOrderMark THEN Tail(s) ELSE s

\* dec.decode(bytes), dec = new TextDecoder("utf-8")
Utf8Decode(bs) == StripBOM(Utf8DecodeFrom(bs, 1))

\* The UTF-16LE decoder: two bytes a code unit, low byte first; an unpaired
\* surrogate and a trailing odd byte give U+FFFD.
RECURSIVE Utf16Units(_, _)
Utf16Units(bs, i) ==
  IF i > Len(bs) THEN <<>>
  ELSE IF i = Len(bs) THEN <<-1>>
  ELSE <<bs[i] + 256 * bs[i + 1]>> \o Utf16Units(bs, i + 2)

RECURSIVE Utf16Scrub(_)
Utf16Scrub(u) ==
  IF u = <<>> THEN <<>>
  ELSE LET c == Head(u) IN
       IF c = -1 \/ (IsLead(c) /\ Len(u) >= 2 /\ u[2] = -1)
       THEN <<Replacement>>
       ELSE IF IsLead(c) /\ Len(u) >= 2 /\ IsTrail(u[2])
       THEN <<c, u[2]>> \o Utf16Scrub(Tail(Tail(u)))
       ELSE IF IsLead(c) \/ IsTrail(c)
       THEN <<Replacement>> \o Utf16Scrub(Tail(u))
       ELSE <<c>> \o Utf16Scrub(Tail(u))

\* dec_16.decode(bytes), dec_16 = new TextDecoder("utf-16le")
Utf16leDecode(bs) == StripBOM(Utf16Scrub(Utf16Units(bs, 1)))

\* The string's code units as the bytes the Uint16Array stores.
RECURSIVE Utf16leBytes(_)
Utf16leBytes(s) ==
  IF s = <<>> THEN <<>>
  ELSE <<Head(s) % 256, Head(s) \div 256>> \o Utf16leBytes(Tail(s))

\* ------------------------------------------------------------------ state
VARIABLES
  build,    \* which bridge: "emlite" (src/src/emlite.js) or "legacy" (part_001)
  inited,   \* whether EMLITE_VALMAP / HANDLE_MAP exists
  epoch,    \* how many tables have been created (names the marker Symbol)
  exports,  \* this.exports: "unset" until setExports stores the exports
  adapterInited, \* `inited` of adapter.js: whether env() made its table
  frame,    \* the call being dispatched: its callee and the `args` it was given
  h2e,      \* HandleTable._h2e
  v2h,      \* HandleTable._v2h
  next,     \* HandleTable._next
  nextObj,  \* identity of the next host object to be created
  heap,     \* the host objects: identity -> class, properties, behaviour
  mem,      \* the bytes of the guest memory's current buffer
  memGen,   \* identity of this._memory.buffer (a growth makes a new buffer)
  viewGen,  \* identity of the buffer the typed views (this._u8 ...) are over
  hasMalloc,\* whether the guest exports emlite_malloc
  last,     \* what the last ABI operation did and returned
  track,    \* whether runs of inc_ref / dec_ref are followed (in run)
  guest,    \* the guest program: the handle count it stops at (cap), the
            \* 32-bit patterns it passes to make_int / make_uint (ints)
  run       \* the current run inc_ref(h)^n dec_ref(h)^m on one handle h

bridgeVars == <<build, inited, epoch, exports, adapterInited, frame>>
tblVars == <<h2e, v2h, next>>
objVars == <<nextObj, heap>>
memVars == <<mem, memGen, viewGen, hasMalloc>>
histVars == <<last, track, run>>
vars == <<bridgeVars, tblVars, objVars, memVars, histVars, guest>>

Tbl == [h2e |-> h2e, v2h |-> v2h, next |-> next]

SetTbl(T) ==
  /\ h2e' = T.h2e
  /\ v2h' = T.v2h
  /\ next' = T.next

\* last: op the operation, ret its integer result (-1: none), threw whether
\* a native exception left the operation towards the guest, val the value
\* handed to HandleTable.add (NoVal: add was not called), ptr and len the
\* operation's pointer and length arguments, acc the access to guest memory
\* the operation made through the typed views ("none", "read", "write"),
\* fresh whether the view used was over the current buffer, disp what the
\* host dispatch step did ("none", "returned", "threw"), thrown the value
\* it threw, afterNotify whether the operation before this one was
\* emscripten_notify_memory_growth, alloc what the guest allocator did for a
\* string output ("none": not asked, "absent", "null", "block"), out the
\* 32-bit pattern or the limbs a numeric extraction returned, res the value a
\* host call of a callback returned, args the values it was called with,
\* call the guest dispatcher's call <<callable, fidx, argvHandle, data>>, or
\* the handle arguments of push, get, set and has.
NoResult ==
  [op |-> "none", ret |-> -1, threw |-> FALSE, val |-> NoVal,
   ptr |-> -1, len |-> -1, acc |-> "none", fresh |-> TRUE,
   disp |-> "none", thrown |-> NoVal, afterNotify |-> FALSE,
   alloc |-> "none", out |-> <<>>, res |-> NoVal, args |-> <<>>,
   call |-> <<>>, key |-> NoVal]

Result(op, ret, threw, val) ==
  [NoResult EXCEPT !.op = op, !.ret = ret, !.threw = threw, !.val = val,
                   !.afterNotify = (last.op = "notify_memory_growth")]

\* No call is being dispatched.
NoFrame == [op |-> "none", callee |-> NoVal, handles |-> <<>>, args |-> <<>>, call |-> <<>>]

NoRun == [h |-> -1, incs |-> 0, decs |-> 0, r0 |-> 0, v0 |-> NoVal]

Refs(h) == IF h \in DOMAIN h2e THEN h2e[h].refs ELSE 0

\* The bounds of the model: a new entry needs next < MaxNext, one more
\* reference needs refs < MaxRefs.
CanAdd(value) ==
  IF value \in DOMAIN v2h
  THEN v2h[value] \in DOMAIN h2e => h2e[v2h[value]].refs < MaxRefs
  ELSE next < guest.cap

\* `return EMLITE_VALMAP.add(value)` at the end of an operation whose other
\* observations are in res.
RegisterR(res, value) ==
  /\ CanAdd(value)
  /\ LET r == HT_add(Tbl, value) IN
       /\ SetTbl(r.T)
       /\ last' = [res EXCEPT !.ret = r.h, !.threw = r.threw, !.val = value]
  /\ run' = NoRun

Register(op, value) == RegisterR(Result(op, -1, FALSE, NoVal), value)

\* A run on one handle is followed for at most MaxRun calls.
RunRoom(h) == run.h = h => run.incs + run.decs < MaxRun

\* The 32-bit pattern <<hi, lo>> of a small integer.
Wire(n) == <<(n \div Limb) % Limb, n % Limb>>
IntInputs == {Wire(7)}
\* <<pointer, length>> of the strings the guest makes, <<target, index>> of
\* its reads, <<target, index, value>> of its writes and <<target, pointer,
\* length>> of its own-property tests.
StrInputs == {<<0, 1>>, <<PageBytes, 1>>}
GetInputs == {<<0, 2>>, <<8, 2>>, <<7, 2>>}
SetInputs == {<<0, 2, 3>>, <<2, 2, 3>>, <<7, 2, 3>>}
OwnPropInputs == {<<0, 0, 1>>, <<4, 0, 1>>}
PushInputs == {<<0, 7>>, <<4, 7>>, <<7, 8>>}
\* What a host function can do when called, its code being the host's:
\* return a value, throw an Error, throw a string, or throw an object
\* that String() cannot convert.
HostBehaviours == {"returns", "throwsError", "throwsString", "throwsBare"}
\* A guest is the handle budget it works in (cap), the arguments it passes
\* and the host functions it meets (hows). The guest of the table, string
\* and call specifications:
TableGuest ==
  [cap |-> MaxNext, ints |-> IntInputs, strs |-> StrInputs,
   gets |-> GetInputs, sets |-> SetInputs, owns |-> OwnPropInputs,
   hows |-> HostBehaviours, pushes |-> PushInputs]
\* The guest of the array scenario: it makes an array, an element, an index
\* and reads the element back.
ArrayGuest ==
  [TableGuest EXCEPT !.cap = MaxNext + 2, !.ints = {Wire(0), Wire(7)},
                     !.gets = GetInputs \cup {<<7, 9>>}]
Handles == 0 .. MaxNext
\* inc_ref is tried on the last reserved handle, on every handle that can be
\* issued and on one that never is.
IncRefInputs == 6 .. MaxNext

\* The run after inc_ref(h) / dec_ref(h).
RunAfter(h, inc) ==
  IF ~track THEN NoRun
  ELSE IF run.h = h /\ (inc => run.decs = 0)
  THEN [run EXCEPT !.incs = IF inc THEN @ + 1 ELSE @,
                   !.decs = IF inc THEN @ ELSE @ + 1]
  ELSE [h |-> h, incs |-> IF inc THEN 1 ELSE 0, decs |-> IF inc THEN 0 ELSE 1,
        r0 |-> Refs(h), v0 |-> HT_get(Tbl, h)]

\* ------------------------------------------------------------ host objects
\* A host object is a record [cls, props]: cls its kind ("Object", "Array",
\* "Function", "Error", or "Bare" for an object without a prototype, such as
\* Object.create(null)), props its own properties (property key -> value;
\* an array's length and an Error's message and cause are properties), ro
\* the keys of its read-only properties.
KeyA == Str(<<97>>)
KeyLength == Str(<<108, 101, 110, 103, 116, 104>>)
KeyMessage == Str(<<109, 101, 115, 115, 97, 103, 101>>)
KeyCause == Str(<<99, 97, 117, 115, 101>>)
KeyName == Str(<<110, 97, 109, 101>>)
KeyCode == Str(<<99, 111, 100, 101>>)
KeyUndefined == Str(<<117, 110, 100, 101, 102, 105, 110, 101, 100>>)
\* "EMLITE_VALMAP", the property of globalThis the table is assigned to.
ValmapName == <<69, 77, 76, 73, 84, 69, 95, 86, 65, 76, 77, 65, 80>>
KeyValmap == Str(ValmapName)

HostObject(cls, props) == [cls |-> cls, props |-> props, ro |-> {}]
NoProps == <<>>
NewArray == HostObject("Array", KeyLength :> Num(0))
NewError(msg) == HostObject("Error", KeyMessage :> Str(msg))

IsObject(v) == Tag(v) \in {"object", "function"}
IsNullish(v) == Tag(v) \in {"null", "undefined"}
Id(v) == v[2][1]
Cls(v, H) == IF IsObject(v) /\ Id(v) \in DOMAIN H THEN H[Id(v)].cls ELSE "none"
IsArray(v, H) == Cls(v, H) = "Array"
IsError(v, H) == Cls(v, H) = "Error"
IsCallable(v) == Tag(v) = "function"

\* The host environment the bridge runs in: globalThis has one method, a,
\* and the read-only property undefined every global object has; console
\* has none.
InitHeap ==
  (GlobalThisId :>
     [HostObject("Object", (KeyA :> Fn(HostFnId)) @@ (KeyUndefined :> Undefined))
        EXCEPT !.ro = {KeyUndefined}])
    @@ (ConsoleId :> HostObject("Object", NoProps))
    @@ (HostFnId :> HostObject("Function", NoProps))

\* String(v): the decimal digits of a number, the words of the other
\* primitives, the text of an object by its kind.
RECURSIVE Digits(_)
Digits(n) == IF n < 10 THEN <<48 + n>> ELSE Digits(n \div 10) \o <<48 + (n % 10)>>

NumberToString(n) == IF n < 0 THEN <<45>> \o Digits(-n) ELSE Digits(n)

\* String(v) throws a TypeError for an object without toString.
StringThrows(v, H) == Cls(v, H) = "Bare"

ObjectToString(rec) ==
  CASE rec.cls = "Error" ->
         <<69, 114, 114, 111, 114>> \o
           (IF rec.props[KeyMessage][2] = <<>> THEN <<>>
            ELSE <<58, 32>> \o rec.props[KeyMessage][2])
    [] rec.cls = "Array" /\ rec.props[KeyLength] = Num(0) -> <<>>
    [] rec.cls \in {"Function", "jsFn.emlite", "jsFn.adapter", "jsFn.wasip2"} -> <<102>>
    [] OTHER -> <<91, 111, 98, 106, 101, 99, 116, 32, 79, 98, 106, 101, 99, 116, 93>>

\* An array's string is its elements' strings joined by commas, null and
\* undefined counting as empty, and an array met again inside itself too
\* (seen: the arrays being joined).
RECURSIVE StringOfIn(_, _, _)
RECURSIVE JoinFrom(_, _, _, _)
JoinFrom(rec, i, H, seen) ==
  LET len == NumVal(rec.props[KeyLength])
      k == Str(Digits(i))
      el == IF k \in DOMAIN rec.props THEN rec.props[k] ELSE Undefined
      s == IF IsNullish(el) THEN <<>> ELSE StringOfIn(el, H, seen) IN
  IF i >= len THEN <<>>
  ELSE IF i + 1 < len THEN s \o <<44>> \o JoinFrom(rec, i + 1, H, seen)
  ELSE s

StringOfIn(v, H, seen) ==
  CASE Tag(v) = "string" -> v[2]
    [] Tag(v) = "number" -> NumberToString(NumVal(v))
    [] Tag(v) = "boolean" ->
         IF v[2][1] = 1 THEN <<116, 114, 117, 101>> ELSE <<102, 97, 108, 115, 101>>
    [] Tag(v) = "null" -> <<110, 117, 108, 108>>
    [] Tag(v) = "undefined" -> <<117, 110, 100, 101, 102, 105, 110, 101, 100>>
    [] Tag(v) = "symbol" -> <<83, 121, 109, 98, 111, 108, 40, 41>>
    [] IsArray(v, H) ->
         IF Id(v) \in seen THEN <<>>
         ELSE JoinFrom(H[Id(v)], 0, H, seen \cup {Id(v)})
    [] OTHER -> ObjectToString(H[Id(v)])

StringOf(v, H) == StringOfIn(v, H, {})

\* The property key a value is used as: a symbol is its own key, every other
\* value its string.
ToPropertyKey(v, H) == IF Tag(v) = "symbol" THEN v ELSE Str(StringOf(v, H))

\* The array index a key denotes, -1 if none (up to MaxIndex).
IndexOf(key) ==
  IF Tag(key) = "string" /\ \E i \in 0 .. MaxIndex : Digits(i) = key[2]
  THEN CHOOSE i \in 0 .. MaxIndex : Digits(i) = key[2]
  ELSE -1

\* target[key] for a target that is not null or undefined. The properties
\* the prototypes provide are not modelled: a primitive has none.
PropGet(H, target, key) ==
  IF IsObject(target) /\ key \in DOMAIN H[Id(target)].props
  THEN H[Id(target)].props[key]
  ELSE Undefined

\* target[key] = v storing nothing.
PropSet_Drop(H, target, key, v) == H

\* target[key] = v for an object with key writable: an index at or above an
\* array's length extends the array (the length itself is only assigned
\* numbers here).
PropSet(H, target, key, v) ==
  LET rec == H[Id(target)]
      i == IndexOf(key)
      props == MapSet(rec.props, key, v)
      grown == IF rec.cls = "Array" /\ i >= NumVal(rec.props[KeyLength])
               THEN MapSet(props, KeyLength, Num(i + 1)) ELSE props
  IN MapSet(H, Id(target), [rec EXCEPT !.props = grown])

\* The first page of the guest memory holds the guest's data: "ab".
InitMem == [i \in 1 .. PageBytes |-> IF i = 1 THEN 97 ELSE IF i = 2 THEN 98 ELSE 0]

\* The state after `new Emlite()`: in emlite.js no table exists until the
\* guest calls emlite_init_handle_table; part_001 builds HANDLE_MAP when the
\* module is loaded.
InitConstructed(b, data) ==
  /\ build = b
  /\ inited = (build = "legacy")
  /\ adapterInited = FALSE
  /\ frame = NoFrame
  /\ epoch = IF build = "legacy" THEN 1 ELSE 0
  /\ LET T == IF build = "legacy" THEN NewHandleTable(1) ELSE EmptyTable IN
       /\ h2e = T.h2e
       /\ v2h = T.v2h
       /\ next = T.next
  /\ nextObj = FirstFreeObj
  /\ heap = InitHeap
  /\ mem = data
  /\ memGen = 1
  /\ viewGen = 1
  /\ last = NoResult
  /\ run = NoRun

\* The bridge once the module is instantiated and its exports passed to
\* setExports.
InitBridgeWith(b, data) == InitConstructed(b, data) /\ exports = "set"

InitBridge(b) == InitBridgeWith(b, InitMem)

Init == InitBridge("emlite") /\ guest = TableGuest /\ track = FALSE /\ hasMalloc = TRUE


\* ------------------------------------------------- memory-view synchronizer
\* _updateViews building the views over the buffer it saw last.
UpdateViews_Stale(vg, mg) == vg

\* _updateViews: the views are rebuilt over this._memory.buffer (mg); vg is
\* the buffer they were over.
UpdateViews(vg, mg) == mg

\* _ensureViewsFresh
EnsureViewsFresh(vg, mg) == IF vg /= mg THEN UpdateViews(vg, mg) ELSE vg

\* this._u8.subarray(ptr, ptr + n) of a view over the current buffer: both
\* ends are clamped to the buffer.
ViewBytes(ptr, n) ==
  SubSeq(mem, Min(ptr, Len(mem)) + 1, Min(ptr + n, Len(mem)))

\* cStr / cStrUtf16: the views are re-validated, then read. The buffer of a
\* stale view is detached (a non-shared memory's growth detaches it), and
\* subarray on it throws a TypeError.
cStrWith(ptr, n, wide) ==
  LET vg == EnsureViewsFresh(viewGen, memGen) IN
  IF vg /= memGen
  THEN [viewGen |-> vg, threw |-> TRUE, fresh |-> FALSE, str |-> <<>>]
  ELSE [viewGen |-> vg, threw |-> FALSE, fresh |-> TRUE,
        str |-> IF wide THEN Utf16leDecode(ViewBytes(ptr, 2 * n))
                ELSE Utf8Decode(ViewBytes(ptr, n))]

cStr(ptr, len) == cStrWith(ptr, len, FALSE)
cStrUtf16(ptr, len) == cStrWith(ptr, len, TRUE)

Zeros(n) == [i \in 1 .. n |-> 0]
PagesFor(n) == (n + PageBytes - 1) \div PageBytes

\* What exports.emlite_malloc(n) can do, the guest's allocator being outside
\* the repository: return 0; return the block right above the guest's data
\* in the memory as it is; or grow the memory and return the new pages,
\* the guest runtime then calling emscripten_notify_memory_growth (notify)
\* or not.
MallocOutcomes(n) ==
  {[ptr |-> 0, mem |-> mem, memGen |-> memGen, notify |-> FALSE]}
  \cup {[ptr |-> p, mem |-> mem, memGen |-> memGen, notify |-> FALSE] :
          p \in {q \in {PageBytes} : q + n <= Len(mem)}}
  \cup (IF Len(mem) + PagesFor(n) * PageBytes <= MaxPages * PageBytes
        THEN {[ptr |-> Len(mem),
               mem |-> mem \o Zeros(PagesFor(n) * PageBytes),
               memGen |-> memGen + 1, notify |-> b] : b \in BOOLEAN}
        ELSE {})

WriteBytes(m, ptr, bs) ==
  [i \in 1 .. Len(m) |->
     IF i > ptr /\ i <= ptr + Len(bs) THEN bs[i - ptr] ELSE m[i]]

IsStringValue(v) == v[1] = "string"

\* A result of copyStringToWasm / copyStringToWasmUtf16 that touched nothing.
CopyNothing(ret, threw) ==
  [ret |-> ret, threw |-> threw, acc |-> "none", fresh |-> TRUE,
   mem |-> mem, memGen |-> memGen, viewGen |-> viewGen, alloc |-> "none"]

\* copyStringToWasm(str), a the allocator's outcome. The views are
\* re-validated before emlite_malloc is called and used after it:
\* this._u8.set on a view whose buffer was detached throws a TypeError.
copyStringToWasm(str, a) ==
  IF ~IsStringValue(str) \/ str[2] = <<>> THEN CopyNothing(0, FALSE)
  ELSE LET vg == EnsureViewsFresh(viewGen, memGen) IN
       IF ~hasMalloc
       THEN [CopyNothing(0, FALSE) EXCEPT !.viewGen = vg, !.alloc = "absent"]
       ELSE IF a.ptr = 0
       THEN [CopyNothing(-1, TRUE) EXCEPT
               !.viewGen = vg, !.mem = a.mem, !.memGen = a.memGen,
               !.alloc = "null"]
       ELSE LET used == IF a.notify THEN UpdateViews(vg, a.memGen) ELSE vg
                utf8 == Utf8Encode(str[2] \o <<0>>) IN
            IF used /= a.memGen
            THEN [ret |-> -1, threw |-> TRUE, acc |-> "write",
                  fresh |-> FALSE, mem |-> a.mem, memGen |-> a.memGen,
                  viewGen |-> used, alloc |-> "block"]
            ELSE [ret |-> a.ptr, threw |-> FALSE, acc |-> "write",
                  fresh |-> TRUE, mem |-> WriteBytes(a.mem, a.ptr, utf8),
                  memGen |-> a.memGen, viewGen |-> used, alloc |-> "block"]

\* copyStringToWasmUtf16(str): as above, but the code units are stored one
\* by one through this._u16, and a store into a view whose buffer was
\* detached is silently dropped: the pointer is returned, nothing written.
copyStringToWasmUtf16(str, a) ==
  IF ~IsStringValue(str) \/ str[2] = <<>> THEN CopyNothing(0, FALSE)
  ELSE LET vg == EnsureViewsFresh(viewGen, memGen) IN
       IF ~hasMalloc
       THEN [CopyNothing(0, FALSE) EXCEPT !.viewGen = vg, !.alloc = "absent"]
       ELSE IF a.ptr = 0 \/ a.ptr % 2 /= 0
       THEN [CopyNothing(-1, TRUE) EXCEPT
               !.viewGen = IF a.notify THEN UpdateViews(vg, a.memGen) ELSE vg,
               !.mem = a.mem, !.memGen = a.memGen,
               !.alloc = IF a.ptr = 0 THEN "null" ELSE "block"]
       ELSE LET used == IF a.notify THEN UpdateViews(vg, a.memGen) ELSE vg IN
            [ret |-> a.ptr, threw |-> FALSE, acc |-> "write",
             fresh |-> used = a.memGen,
             mem |-> IF used = a.memGen
                     THEN WriteBytes(a.mem, a.ptr, Utf16leBytes(str[2] \o <<0>>))
                     ELSE a.mem,
             memGen |-> a.memGen, viewGen |-> used, alloc |-> "block"]

\* ------------------------------------------------------- table operations
\* emlite_init_handle_table, res what is recorded of the call.
InitHandleTable(res) ==
  /\ build = "emlite"
  /\ epoch < MaxInits
  /\ inited' = TRUE
  /\ epoch' = epoch + 1
  /\ SetTbl(NewHandleTable(epoch + 1))
  /\ last' = res
  /\ run' = NoRun
  /\ UNCHANGED <<build, exports, adapterInited, frame, objVars, memVars, track, guest>>

emlite_init_handle_table ==
  /\ build = "emlite"
  /\ InitHandleTable(Result("init_handle_table", -1, FALSE, NoVal))

\* env() of adapter.js: the first call makes the Emlite instance and a table
\* (`if (!inited) { e.emlite_init_handle_table(); inited = true; }`), every
\* call returns the env over the table that is then current.
env ==
  IF adapterInited THEN [T |-> Tbl, epoch |-> epoch]
  ELSE [T |-> NewHandleTable(epoch + 1), epoch |-> epoch + 1]

\* emliteInitHandleTable of adapter.js: e().emlite_init_handle_table().
adapter_emliteInitHandleTable ==
  /\ build = "emlite"
  /\ env.epoch < MaxInits
  /\ SetTbl(NewHandleTable(env.epoch + 1))
  /\ epoch' = env.epoch + 1
  /\ inited' = TRUE
  /\ adapterInited' = TRUE
  /\ last' = Result("adapter.init_handle_table", -1, FALSE, NoVal)
  /\ run' = NoRun
  /\ UNCHANGED <<build, exports, frame, objVars, memVars, track, guest>>

\* emliteValNewObject of adapter.js: e().emlite_val_new_object().
adapter_emliteValNewObject ==
  /\ build = "emlite"
  /\ env.epoch <= MaxInits
  /\ nextObj < MaxObjs
  /\ env.T.next < guest.cap
  /\ LET r == HT_add(env.T, Obj(nextObj)) IN
       /\ SetTbl(r.T)
       /\ last' = [Result("adapter.new_object", r.h, r.threw, Obj(nextObj))
                     EXCEPT !.call = <<env.epoch>>]
  /\ epoch' = env.epoch
  /\ inited' = TRUE
  /\ adapterInited' = TRUE
  /\ nextObj' = nextObj + 1
  /\ heap' = MapSet(heap, nextObj, HostObject("Object", NoProps))
  /\ run' = NoRun
  /\ UNCHANGED <<build, exports, frame, memVars, track, guest>>

\* ------------------------------------------------------ version handshake
EMLITE_VERSION == 1037
LegacyVersion == 1024
HostVersion(b) == IF b = "emlite" THEN EMLITE_VERSION ELSE LegacyVersion
\* What the guest exports as emlite_target: nothing (<<>>), or a function
\* returning a version.
TargetInputs == {<<>>, <<EMLITE_VERSION>>, <<LegacyVersion>>}
WarnAbsent == "emlite_target is not defined"
WarnMismatch == "incompatible version"

\* setExports(exports): the warnings go to out.
setExports ==
  /\ \E target \in TargetInputs :
       /\ exports' = "set"
       /\ last' = [Result("setExports", -1, FALSE, NoVal) EXCEPT
                     !.call = <<target>>,
                     !.out = IF target = <<>> THEN <<WarnAbsent>>
                             ELSE IF HostVersion(build) /= target[1]
                             THEN <<WarnMismatch>> ELSE <<>>]
  /\ run' = NoRun
  /\ UNCHANGED <<build, inited, epoch, adapterInited, frame, tblVars, objVars, memVars, track, guest>>

\* wasip2adapter.js imports EMLITE_VERSION from emlite.js, which does not
\* export it: the engine rejects the module when it links it (the adapter
\* never runs), or a bundler binds the name to undefined.
ImportOutcomes == {"rejected", "undefined"}

\* wasip2adapter.js emliteInitHandleTable: the table is created, then the
\* version target() returns is compared with the imported EMLITE_VERSION.
wasip2_emliteInitHandleTable ==
  /\ build = "emlite"
  /\ \E target \in TargetInputs, import \in ImportOutcomes :
       LET res == [Result("wasip2_emliteInitHandleTable", -1, FALSE, NoVal) EXCEPT
                     !.call = <<target>>] IN
       IF import = "rejected"
       THEN /\ last' = [res EXCEPT !.threw = TRUE]
            /\ run' = NoRun
            /\ UNCHANGED <<bridgeVars, tblVars, objVars, memVars, track, guest>>
       ELSE InitHandleTable(
              [res EXCEPT !.out = IF target = <<>> THEN <<WarnAbsent>>
                                  ELSE <<WarnMismatch>>])

emlite_val_new_array ==
  /\ inited
  /\ nextObj < MaxObjs
  /\ Register("new_array", Obj(nextObj))
  /\ nextObj' = nextObj + 1
  /\ heap' = MapSet(heap, nextObj, NewArray)
  /\ UNCHANGED <<bridgeVars, memVars, track, guest>>

emlite_val_new_object ==
  /\ inited
  /\ nextObj < MaxObjs
  /\ Register("new_object", Obj(nextObj))
  /\ nextObj' = nextObj + 1
  /\ heap' = MapSet(heap, nextObj, HostObject("Object", NoProps))
  /\ UNCHANGED <<bridgeVars, memVars, track, guest>>

emlite_val_make_bool ==
  /\ inited
  /\ build = "emlite"
  /\ \E b \in BOOLEAN : Register("make_bool", Bool(b))
  /\ UNCHANGED <<bridgeVars, objVars, memVars, track, guest>>

\* A wasm i32 argument as the JavaScript number the import receives: the
\* pattern read as signed.
FromI32(w) == NumW(IF w[1] >= Limb \div 2 THEN w[1] - Limb ELSE w[1], w[2])
\* value | 0 and value >>> 0 of a number that is an integer.
ToInt32(v) == NumW(((v[2][1] + Limb \div 2) % Limb) - Limb \div 2, v[2][2])
\* value >>> 0 leaving the sign as it is.
ToUint32_Keep(v) == v
ToUint32(v) == NumW(v[2][1] % Limb, v[2][2])
\* A number the operation returns, as the i32 pattern the guest receives.
ToI32(v) == <<v[2][1] % Limb, v[2][2]>>

emlite_val_make_int ==
  /\ inited
  /\ \E value \in guest.ints :
       RegisterR([Result("make_int", -1, FALSE, NoVal) EXCEPT !.call = <<value>>],
                 ToInt32(FromI32(value)))
  /\ UNCHANGED <<bridgeVars, objVars, memVars, track, guest>>

emlite_val_make_uint ==
  /\ inited
  /\ \E value \in guest.ints :
       RegisterR([Result("make_uint", -1, FALSE, NoVal) EXCEPT !.call = <<value>>],
                 ToUint32(FromI32(value)))
  /\ UNCHANGED <<bridgeVars, objVars, memVars, track, guest>>

\* The doubles passed to make_double: 7, -1 and 2^32 - 1.
DoubleInputs == {Num(7), NumW(-1, Limb - 1), NumW(Limb - 1, Limb - 1)}

\* emlite_val_make_double: (n) => EMLITE_VALMAP.add(n)
emlite_val_make_double ==
  /\ inited
  /\ \E n \in DoubleInputs :
       RegisterR([Result("make_double", -1, FALSE, NoVal) EXCEPT !.call = <<n[2]>>], n)
  /\ UNCHANGED <<bridgeVars, objVars, memVars, track, guest>>

\* A bigint is <<"bigint", <<l3, l2, l1, l0>>>>, 16-bit limbs of which the
\* top one, l3, carries the sign. A wasm i64 argument arrives as the bigint
\* its pattern denotes read as signed.
BigW(l) == <<"bigint", l>>
\* A 64-bit constructor that makes a Number of the low 32 bits.
FromI64_AsNumber(w) == NumW(w[3], w[4])

FromI64(w) == BigW([w EXCEPT ![1] = IF @ >= Limb \div 2 THEN @ - Limb ELSE @])
BigNegative(x) == x[2][1] < 0
\* x + (1n << 64n)
BigPlus2to64(x) == BigW([x[2] EXCEPT ![1] = @ + Limb])

\* emlite_val_make_biguint's value without the normalization.
BigUint_Signed(x) == x
\* let x = BigInt(value); if (x < 0n) x += 1n << 64n
BigUint(x) == IF BigNegative(x) THEN BigPlus2to64(x) ELSE x

\* The 64-bit patterns 0, 7, 2^63 - 1, 2^63 and 2^64 - 1.
BigInputs ==
  {<<0, 0, 0, 0>>, <<0, 0, 0, 7>>,
   <<Limb \div 2 - 1, Limb - 1, Limb - 1, Limb - 1>>,
   <<Limb \div 2, 0, 0, 0>>,
   <<Limb - 1, Limb - 1, Limb - 1, Limb - 1>>}

emlite_val_make_bigint ==
  /\ inited
  /\ \E value \in BigInputs :
       RegisterR([Result("make_bigint", -1, FALSE, NoVal) EXCEPT !.call = <<value>>],
                 FromI64(value))
  /\ UNCHANGED <<bridgeVars, objVars, memVars, track, guest>>

emlite_val_make_biguint ==
  /\ inited
  /\ \E value \in BigInputs :
       RegisterR([Result("make_biguint", -1, FALSE, NoVal) EXCEPT !.call = <<value>>],
                 BigUint(FromI64(value)))
  /\ UNCHANGED <<bridgeVars, objVars, memVars, track, guest>>

\* The number NaN, which has no limbs.
NaN == <<"NaN", <<>>>>

\* ToPrimitive of a value whose String() does not throw: an object of the
\* model has no valueOf of its own and becomes its string.
ToPrimitive(v, H) == IF IsObject(v) THEN Str(ObjectToString(H[Id(v)])) ELSE v

\* The number a string denotes: 0 for the empty string, the integer of a
\* string of decimal digits with or without a minus sign, NaN for the names
\* and lists the other strings of the model are.
IsDigits(s) == s # <<>> /\ Len(s) < 10 /\ \A i \in 1 .. Len(s) : s[i] \in 48 .. 57
RECURSIVE DecimalOf(_)
DecimalOf(s) ==
  IF s = <<>> THEN 0 ELSE DecimalOf(SubSeq(s, 1, Len(s) - 1)) * 10 + s[Len(s)] - 48
StringToNumber(s) ==
  IF s = <<>> THEN Num(0)
  ELSE IF IsDigits(s) THEN Num(DecimalOf(s))
  ELSE IF Head(s) = 45 /\ IsDigits(Tail(s)) THEN Num(-DecimalOf(Tail(s)))
  ELSE NaN

\* Number(v) throws a TypeError for a symbol and for an object that cannot
\* be converted.
NumberThrows(v, H) == Tag(v) = "symbol" \/ StringThrows(v, H)

\* Number(v) for the other values that are not bigints.
ToNumber(v, H) ==
  LET p == ToPrimitive(v, H) IN
  CASE Tag(p) = "number" -> p
    [] Tag(p) = "boolean" -> Num(p[2][1])
    [] Tag(p) = "null" -> Num(0)
    [] Tag(p) = "undefined" -> NaN
    [] Tag(p) = "string" -> StringToNumber(p[2])

\* The ToNumber step of `val | 0` and `val >>> 0`, which make 0 of NaN.
ToInteger(v, H) == IF ToNumber(v, H) = NaN THEN Num(0) ELSE ToNumber(v, H)

\* A conversion that loses the low limb of a bigint whose top limb is not 0.
BigLow32_Lossy(x) == <<x[2][3], IF x[2][1] = 0 THEN x[2][4] ELSE 0>>

\* The low 32 bits of a bigint, which BigInt.asIntN(32, val) and
\* BigInt.asUintN(32, val) keep: the limbs above them are multiples of 2^32.
BigLow32(x) == <<x[2][3], x[2][4]>>

\* Number(BigInt.asIntN(32, val)) and Number(BigInt.asUintN(32, val)).
BigAsN32(x, unsigned) ==
  IF unsigned THEN NumW(BigLow32(x)[1], BigLow32(x)[2])
  ELSE FromI32(BigLow32(x))

\* emlite_val_get_value_int / emlite_val_get_value_uint: res is the number
\* computed, out the i32 the guest receives. `val | 0` and `val >>> 0` throw
\* a TypeError for a symbol.
GetValue32(op, h, unsigned) ==
  LET val == HT_get(Tbl, h)
      n == IF Tag(val) = "bigint" THEN BigAsN32(val, unsigned)
           ELSE IF unsigned THEN ToUint32(ToInteger(val, heap))
           ELSE ToInt32(ToInteger(val, heap)) IN
  /\ last' = IF Tag(val) # "bigint" /\ NumberThrows(val, heap)
             THEN [Result(op, -1, TRUE, NoVal) EXCEPT !.call = <<h>>]
             ELSE [Result(op, -1, FALSE, NoVal) EXCEPT
                     !.call = <<h>>, !.res = n, !.out = ToI32(n)]
  /\ run' = NoRun
  /\ UNCHANGED <<bridgeVars, tblVars, objVars, memVars, track, guest>>

\* The values are read at undefined, true and the first two handles issued.
ValueHandles == {1, 3, 7, 8}

emlite_val_get_value_int ==
  /\ inited
  /\ \E n \in ValueHandles : GetValue32("get_value_int", n, FALSE)

emlite_val_get_value_uint ==
  /\ inited
  /\ \E n \in ValueHandles : GetValue32("get_value_uint", n, TRUE)

emlite_val_inc_ref ==
  /\ inited
  /\ \E h \in IncRefInputs :
       /\ Refs(h) < MaxRefs
       /\ RunRoom(h)
       /\ SetTbl(HT_incRef(Tbl, h))
       /\ last' = Result("inc_ref", -1, FALSE, NoVal)
       /\ run' = RunAfter(h, TRUE)
  /\ UNCHANGED <<bridgeVars, objVars, memVars, track, guest>>

\* emlite_val_dec_ref without its `h > 6` guard.
DecRefGuarded_NoGuard(T, h) == HT_decRef(T, h).T

DecRefGuarded(T, h) == IF h > 6 THEN HT_decRef(T, h).T ELSE T

emlite_val_dec_ref ==
  /\ inited
  /\ \E h \in Handles :
       /\ RunRoom(h)
       /\ SetTbl(DecRefGuarded(Tbl, h))
       /\ last' = Result("dec_ref", -1, FALSE, NoVal)
       /\ run' = RunAfter(h, FALSE)
  /\ UNCHANGED <<bridgeVars, objVars, memVars, track, guest>>

\* HandleTable.decRef(h) called on the table itself (globalThis.EMLITE_VALMAP
\* in emlite.js, the exported HANDLE_MAP's class in part_001): ret is the
\* boolean it returns.
HandleTable_decRef ==
  /\ inited
  /\ \E h \in IncRefInputs :
       LET r == HT_decRef(Tbl, h) IN
       /\ SetTbl(r.T)
       /\ last' = [Result("decRef", IF r.ret THEN 1 ELSE 0, FALSE, NoVal) EXCEPT
                     !.call = <<h>>]
       /\ run' = NoRun
  /\ UNCHANGED <<bridgeVars, objVars, memVars, track, guest>>

\* HandleTable.incRef(h) and HandleTable.get(h) called on the table itself.
HandleTable_incRef ==
  /\ inited
  /\ \E h \in IncRefInputs :
       /\ Refs(h) < MaxRefs
       /\ SetTbl(HT_incRef(Tbl, h))
       /\ last' = [Result("incRef", -1, FALSE, NoVal) EXCEPT !.call = <<h>>]
       /\ run' = NoRun
  /\ UNCHANGED <<bridgeVars, objVars, memVars, track, guest>>

HandleTable_get ==
  /\ inited
  /\ \E h \in IncRefInputs :
       /\ last' = [Result("get", -1, FALSE, HT_get(Tbl, h)) EXCEPT
                     !.call = <<h>>]
       /\ run' = NoRun
  /\ UNCHANGED <<bridgeVars, tblVars, objVars, memVars, track, guest>>

\* The first handle the sweep evicts: h > 6 in emlite.js, h > 5 in part_001.
ResetFloor(b) == IF b = "emlite" THEN 6 ELSE 5

ResetSweep(T, floor) ==
  LET gone == {h \in DOMAIN T.h2e : h > floor}
      vals == {T.h2e[h].value : h \in gone} IN
  [T EXCEPT !.h2e = [h \in (DOMAIN T.h2e) \ gone |-> T.h2e[h]],
            !.v2h = [v \in (DOMAIN T.v2h) \ vals |-> T.v2h[v]]]

emlite_reset_object_map ==
  /\ inited
  /\ SetTbl(ResetSweep(Tbl, ResetFloor(build)))
  /\ last' = Result("reset_object_map", -1, FALSE, NoVal)
  /\ run' = NoRun
  /\ UNCHANGED <<bridgeVars, objVars, memVars, track, guest>>


\* --------------------------------------------------- memory and strings
WideInputs == {<<PageBytes, 1>>}
StoreInputs == {<<PageBytes, 99>>}
NotifyInputs == {0, MaxPages}
\* get_value_string is tried on undefined and on the first two handles issued.
StringHandles == {1, 7, 8}

\* The guest grows its memory by one page (memory.grow): the memory object
\* gets a new, larger buffer and the old buffer is detached.
GuestMemoryGrow ==
  /\ Len(mem) < MaxPages * PageBytes
  /\ mem' = mem \o Zeros(PageBytes)
  /\ memGen' = memGen + 1
  /\ last' = Result("memory_grow", -1, FALSE, NoVal)
  /\ run' = NoRun
  /\ UNCHANGED <<bridgeVars, tblVars, objVars, viewGen, hasMalloc, track, guest>>

\* The guest stores a byte into its memory.
GuestStore ==
  /\ \E in \in StoreInputs :
       /\ in[1] < Len(mem)
       /\ mem[in[1] + 1] /= in[2]
       /\ mem' = [mem EXCEPT ![in[1] + 1] = in[2]]
  /\ last' = Result("memory_store", -1, FALSE, NoVal)
  /\ run' = NoRun
  /\ UNCHANGED <<bridgeVars, tblVars, objVars, memGen, viewGen, hasMalloc, track, guest>>

emscripten_notify_memory_growth ==
  /\ \E i \in NotifyInputs : viewGen' = UpdateViews(viewGen, memGen)
  /\ last' = Result("notify_memory_growth", -1, FALSE, NoVal)
  /\ run' = NoRun
  /\ UNCHANGED <<bridgeVars, tblVars, objVars, mem, memGen, hasMalloc, track, guest>>

\* EMLITE_VALMAP.add(this.cStr(ptr, len)) and its UTF-16 twin.
MakeStr(op, ptr, n, wide) ==
  LET r == cStrWith(ptr, n, wide)
      res == [Result(op, -1, r.threw, NoVal) EXCEPT
                !.ptr = ptr, !.len = n, !.acc = "read", !.fresh = r.fresh] IN
  /\ viewGen' = r.viewGen
  /\ IF r.threw
     THEN last' = res /\ run' = NoRun /\ UNCHANGED tblVars
     ELSE RegisterR(res, Str(r.str))

emlite_val_make_str ==
  /\ inited
  /\ \E in \in guest.strs : MakeStr("make_str", in[1], in[2], FALSE)
  /\ UNCHANGED <<bridgeVars, objVars, mem, memGen, hasMalloc, track, guest>>

emlite_val_make_str_utf16 ==
  /\ inited
  /\ build = "emlite"
  /\ \E in \in WideInputs : MakeStr("make_str_utf16", in[1], in[2], TRUE)
  /\ UNCHANGED <<bridgeVars, objVars, mem, memGen, hasMalloc, track, guest>>

\* The end of a string-output operation whose result is r.
StringOut(op, r, n, str) ==
  /\ mem' = r.mem
  /\ memGen' = r.memGen
  /\ viewGen' = r.viewGen
  /\ last' = [Result(op, r.ret, r.threw, NoVal) EXCEPT
                !.acc = r.acc, !.fresh = r.fresh, !.alloc = r.alloc,
                !.call = <<n>>, !.args = <<str>>]
  /\ run' = NoRun

emlite_val_get_value_string ==
  /\ inited
  /\ build = "emlite"
  /\ \E n \in StringHandles :
       LET str == HT_get(Tbl, n) IN
       \E a \in MallocOutcomes(Len(Utf8Encode(str[2] \o <<0>>))) :
         StringOut("get_value_string", copyStringToWasm(str, a), n, str)
  /\ UNCHANGED <<bridgeVars, tblVars, objVars, hasMalloc, track, guest>>

emlite_val_get_value_string_utf16 ==
  /\ inited
  /\ build = "emlite"
  /\ \E n \in StringHandles :
       LET str == HT_get(Tbl, n) IN
       \E a \in MallocOutcomes((Len(str[2]) + 1) * 2) :
         StringOut("get_value_string_utf16", copyStringToWasmUtf16(str, a), n, str)
  /\ UNCHANGED <<bridgeVars, tblVars, objVars, hasMalloc, track, guest>>

\* adapter.js: emliteValGetValueString returns String(VAL().get(h)), and
\* emliteValGetValueStringUtf16 its code units; res is the text returned.
AdapterGetValueString(op) ==
  /\ inited
  /\ build = "emlite"
  /\ \E h \in StringHandles :
       LET v == HT_get(Tbl, h) IN
       last' = [Result(op, -1, StringThrows(v, heap), NoVal) EXCEPT
                  !.call = <<h>>, !.args = <<v>>,
                  !.res = IF StringThrows(v, heap) THEN NoVal
                          ELSE Str(StringOf(v, heap))]
  /\ run' = NoRun
  /\ UNCHANGED <<bridgeVars, tblVars, objVars, memVars, track, guest>>

adapter_emliteValGetValueString ==
  AdapterGetValueString("adapter_get_value_string") /\ build = "emlite"
adapter_emliteValGetValueStringUtf16 ==
  AdapterGetValueString("adapter_get_value_string_utf16") /\ build = "emlite"

\* The host writes a string into the guest memory with copyStringToWasm /
\* copyStringToWasmUtf16 and reads it back with cStr / cStrUtf16 at the
\* pointer returned, over the string's length (in bytes of its UTF-8 form,
\* in code units). The strings: "", "a", U+00E9, U+FEFF "a", an unpaired
\* lead surrogate, and the pair of U+1F600.
TextInputs ==
  {<<>>, <<97>>, <<233>>, <<ByteOrderMark, 97>>, <<55357>>, <<55357, 56832>>}
\* A memory with room above the guest's data for the longest of them.
TextMem == Zeros(PageBytes + 6)

CopyString(op, wide) ==
  /\ \E s \in TextInputs :
       \E a \in MallocOutcomes(IF wide THEN (Len(s) + 1) * 2
                                ELSE Len(Utf8Encode(s \o <<0>>))) :
         LET r == IF wide THEN copyStringToWasmUtf16(Str(s), a)
                  ELSE copyStringToWasm(Str(s), a) IN
         /\ mem' = r.mem
         /\ memGen' = r.memGen
         /\ viewGen' = r.viewGen
         /\ last' = [Result(op, r.ret, r.threw, NoVal) EXCEPT
                       !.acc = r.acc, !.fresh = r.fresh, !.alloc = r.alloc,
                       !.args = <<Str(s)>>]
         /\ run' = NoRun
  /\ UNCHANGED <<bridgeVars, tblVars, objVars, hasMalloc, track, guest>>

Emlite_copyStringToWasm == CopyString("copyStringToWasm", FALSE) /\ build = "emlite"
Emlite_copyStringToWasmUtf16 == CopyString("copyStringToWasmUtf16", TRUE) /\ build = "emlite"

ReadString(op, from, wide) ==
  /\ last.op = from
  /\ ~last.threw
  /\ LET str == last.args[1][2]
         n == IF wide THEN Len(str) ELSE Len(Utf8Encode(str))
         r == cStrWith(last.ret, n, wide) IN
       /\ viewGen' = r.viewGen
       /\ last' = [Result(op, -1, r.threw, NoVal) EXCEPT
                     !.ptr = last.ret, !.len = n, !.acc = "read",
                     !.fresh = r.fresh, !.args = last.args, !.res = Str(r.str)]
       /\ run' = NoRun
  /\ UNCHANGED <<bridgeVars, tblVars, objVars, mem, memGen, hasMalloc, track, guest>>

Emlite_cStr == ReadString("cStr", "copyStringToWasm", FALSE) /\ build = "emlite"
Emlite_cStrUtf16 == ReadString("cStrUtf16", "copyStringToWasmUtf16", TRUE) /\ build = "emlite"

\* ------------------------------------------------------ invocation bridge
\* What a host step does: it returns value or throws it, leaving the host
\* objects H and the next free identity n.
Outcome(threw, value, H, n) ==
  [threw |-> threw, value |-> value, heap |-> H, nextObj |-> n]

\* The message of the engine's TypeError.
TypeErrorMessage == <<84>>
\* The message of the Error a host function throws, and the string one throws.
HostMessage == <<109>>
\* "Unknown JS exception"
UnknownMessage ==
  <<85, 110, 107, 110, 111, 119, 110, 32, 74, 83, 32,
    101, 120, 99, 101, 112, 116, 105, 111, 110>>

ThrowTypeError(H, n) ==
  Outcome(TRUE, Obj(n), MapSet(H, n, NewError(TypeErrorMessage)), n + 1)

HostCall(how, construct, H, n) ==
  CASE how = "returns" ->
         IF construct
         THEN Outcome(FALSE, Obj(n), MapSet(H, n, HostObject("Object", NoProps)), n + 1)
         ELSE Outcome(FALSE, Num(7), H, n)
    [] how = "returnsUndefined" -> Outcome(FALSE, Undefined, H, n)
    [] how = "throwsError" ->
         Outcome(TRUE, Obj(n), MapSet(H, n, NewError(HostMessage)), n + 1)
    [] how = "throwsString" -> Outcome(TRUE, Str(HostMessage), H, n)
    [] how = "throwsBare" ->
         Outcome(TRUE, Obj(n), MapSet(H, n, HostObject("Bare", NoProps)), n + 1)

\* Reflect.apply(callee, ...) / Reflect.construct(callee, ...)
ReflectApply(callee, how, construct, H, n) ==
  IF IsCallable(callee) THEN HostCall(how, construct, H, n) ELSE ThrowTypeError(H, n)

\* normalizeThrown(e): e itself if it is an Error; else a new Error of
\* message String(e) with e's name and code and with e as cause; if that
\* throws, a new Error("Unknown JS exception").
normalizeThrown(e, H, n) ==
  IF IsError(e, H) THEN Outcome(FALSE, e, H, n)
  ELSE IF StringThrows(e, H)
  THEN Outcome(FALSE, Obj(n), MapSet(H, n, NewError(UnknownMessage)), n + 1)
  ELSE LET own == IF IsObject(e) THEN H[Id(e)].props ELSE NoProps
           copied == [k \in (DOMAIN own) \cap {KeyName, KeyCode} |-> own[k]]
           err == HostObject("Error",
                    copied @@ NewError(StringOf(e, H)).props @@ (KeyCause :> e))
       IN Outcome(FALSE, Obj(n), MapSet(H, n, err), n + 1)

\* target[method] of obj_call
Lookup(target, key, H, n) ==
  IF IsNullish(target) THEN ThrowTypeError(H, n)
  ELSE Outcome(FALSE, PropGet(H, target, key), H, n)

\* EMLITE_VALMAP.get(n)[EMLITE_VALMAP.get(idx)]
PropRead(target, k, H, n) ==
  IF IsNullish(target) \/ StringThrows(k, H) THEN ThrowTypeError(H, n)
  ELSE Outcome(FALSE, PropGet(H, target, ToPropertyKey(k, H)), H, n)

\* EMLITE_VALMAP.get(n)[EMLITE_VALMAP.get(idx)] = v, in strict code (both
\* bridges are ES modules): a property of a primitive cannot be created.
PropWrite(target, k, v, H, n) ==
  IF ~IsObject(target) \/ StringThrows(k, H) THEN ThrowTypeError(H, n)
  ELSE IF ToPropertyKey(k, H) \in H[Id(target)].ro THEN ThrowTypeError(H, n)
  ELSE Outcome(FALSE, v, PropSet(H, target, ToPropertyKey(k, H), v), n)

\* EMLITE_VALMAP.get(arrRef).push(valRef): only an array has push.
ArrayPush(target, valRef, H, n) ==
  IF ~IsArray(target, H) THEN ThrowTypeError(H, n)
  ELSE Outcome(FALSE, Undefined,
         PropSet(H, target, Str(Digits(NumVal(H[Id(target)].props[KeyLength]))),
                 Num(valRef)), n)

\* Reflect.has(target, key): a TypeError if target is not an object.
ReflectHas(target, k, H, n) ==
  IF ~IsObject(target) \/ StringThrows(k, H) THEN ThrowTypeError(H, n)
  ELSE Outcome(FALSE, Bool(ToPropertyKey(k, H) \in DOMAIN H[Id(target)].props), H, n)

\* Object.prototype.hasOwnProperty.call(target, prop): a TypeError if target
\* is null or undefined. A string's own properties are its length and its
\* indices; other primitives have none. The own properties functions are
\* born with are not modelled.
HasOwnProperty(target, prop, H, n) ==
  IF IsNullish(target) THEN ThrowTypeError(H, n)
  ELSE IF IsObject(target)
  THEN Outcome(FALSE, Bool(prop \in DOMAIN H[Id(target)].props), H, n)
  ELSE Outcome(FALSE,
         Bool(/\ Tag(target) = "string"
              /\ \/ prop = KeyLength
                 \/ IndexOf(prop) \in 0 .. Len(target[2]) - 1), H, n)

\* The end of an operation whose host step did d. catches: the step is
\* inside a try. registers: the operation hands its result (or, caught, the
\* normalized error) to EMLITE_VALMAP.add; res holds what else it did.
\* A throw that is not caught leaves the operation towards the guest; a
\* thrown object that is not registered is garbage and is not kept.
Finish(res, d, catches, registers) ==
  LET r == IF d.threw /\ catches /\ registers
           THEN normalizeThrown(d.value, d.heap, d.nextObj) ELSE d
      seen == [res EXCEPT !.disp = IF d.threw THEN "threw" ELSE "returned",
                          !.thrown = IF d.threw THEN d.value ELSE NoVal]
  IN IF d.threw /\ ~(catches /\ registers)
     THEN /\ last' = [seen EXCEPT !.threw = ~catches, !.thrown = NoVal]
          /\ run' = NoRun
          /\ UNCHANGED <<tblVars, objVars>>
     ELSE /\ r.nextObj <= MaxObjs
          /\ heap' = r.heap
          /\ nextObj' = r.nextObj
          /\ IF registers
             THEN RegisterR(seen, r.value)
             ELSE /\ last' = [seen EXCEPT !.ret = IF r.value = Bool(TRUE) THEN 1 ELSE 0]
                  /\ run' = NoRun
                  /\ UNCHANGED tblVars

\* A TypeError raised before the host step (the argument list is not an
\* array, the method name cannot be read): nothing catches it.
Escapes(res) ==
  /\ last' = [res EXCEPT !.threw = TRUE]
  /\ run' = NoRun
  /\ UNCHANGED <<tblVars, objVars>>

\* A bridge without any try.
Catches_Never(b) == FALSE

Catches(b) == b = "emlite"

\* <<target, value>>, <<target, index>>, <<target, index, value>>,
\* <<target, argument list>>, <<pointer, length>>
HasInputs == {<<0, 2>>, <<7, 2>>}
CallInputs == {<<0, 7>>, <<4, 7>>, <<4, 1>>, <<8, 7>>}
NameInputs == {<<0, 1>>, <<1, 1>>}

emlite_val_push ==
  /\ inited
  /\ \E in \in guest.pushes :
       LET target == HT_get(Tbl, in[1]) IN
       /\ IsArray(target, heap) => NumVal(heap[Id(target)].props[KeyLength]) < MaxPush
       /\ Finish([Result("push", -1, FALSE, NoVal) EXCEPT !.call = in],
                 ArrayPush(target, in[2], heap, nextObj), Catches(build), FALSE)
  /\ UNCHANGED <<bridgeVars, memVars, track, guest>>

emlite_val_get ==
  /\ inited
  /\ \E in \in guest.gets :
       Finish([Result("get", -1, FALSE, NoVal) EXCEPT !.call = in],
              PropRead(HT_get(Tbl, in[1]), HT_get(Tbl, in[2]), heap, nextObj),
              FALSE, TRUE)
  /\ UNCHANGED <<bridgeVars, memVars, track, guest>>

\* The operations of emlite.js name the table by the free identifier
\* EMLITE_VALMAP, which is the property of globalThis that
\* emlite_init_handle_table assigns; part_001's name a constant of the
\* module, HANDLE_MAP. A write of that property therefore replaces what the
\* operations of emlite.js read. The property is not kept among the
\* properties of the heap's globalThis: its value is the table of the model
\* while inited holds.
RebindsValmap(b, target, k, H) ==
  /\ b = "emlite"
  /\ target = Obj(GlobalThisId)
  /\ ~StringThrows(k, H)
  /\ ToPropertyKey(k, H) = KeyValmap

\* emlite_val_set. When the assignment replaces globalThis.EMLITE_VALMAP by
\* the value of a handle (no value of the model is a HandleTable), the
\* operations have no table any more and every one of them throws, as before
\* the first emlite_init_handle_table.
emlite_val_set ==
  /\ inited
  /\ \E in \in guest.sets :
       LET target == HT_get(Tbl, in[1])
           k == HT_get(Tbl, in[2])
           v == HT_get(Tbl, in[3])
           res == [Result("set", -1, FALSE, NoVal) EXCEPT !.call = in] IN
       IF RebindsValmap(build, target, k, heap)
       THEN /\ SetTbl(EmptyTable)
            /\ inited' = FALSE
            /\ last' = [res EXCEPT !.disp = "returned",
                                   !.ret = IF v = Bool(TRUE) THEN 1 ELSE 0]
            /\ run' = NoRun
            /\ UNCHANGED objVars
       ELSE /\ Finish(res, PropWrite(target, k, v, heap, nextObj), FALSE, FALSE)
            /\ inited' = inited
  /\ UNCHANGED <<build, epoch, exports, adapterInited, frame, memVars, track, guest>>

emlite_val_has ==
  /\ inited
  /\ \E in \in HasInputs :
       Finish([Result("has", -1, FALSE, NoVal) EXCEPT !.call = in],
              ReflectHas(HT_get(Tbl, in[1]), HT_get(Tbl, in[2]), heap, nextObj),
              Catches(build), FALSE)
  /\ UNCHANGED <<bridgeVars, memVars, track, guest>>

\* emlite_val_obj_has_own_prop: the name is read with cStr, outside any try.
emlite_val_obj_has_own_prop ==
  /\ inited
  /\ \E in \in guest.owns :
       LET r == cStr(in[2], in[3])
           res == [Result("obj_has_own_prop", -1, FALSE, NoVal) EXCEPT
                     !.call = in, !.ptr = in[2], !.len = in[3], !.acc = "read",
                     !.fresh = r.fresh, !.key = Str(r.str)] IN
       /\ viewGen' = r.viewGen
       /\ IF r.threw THEN Escapes(res)
          ELSE Finish(res, HasOwnProperty(HT_get(Tbl, in[1]), Str(r.str), heap, nextObj),
                      FALSE, FALSE)
  /\ UNCHANGED <<bridgeVars, mem, memGen, hasMalloc, track, guest>>

emlite_val_obj_call ==
  /\ inited
  /\ \E in \in CallInputs, nm \in NameInputs, how \in guest.hows :
       LET target == HT_get(Tbl, in[1])
           argvRef == in[2]
           method == cStr(nm[1], nm[2])
           res == [Result("obj_call", -1, FALSE, NoVal) EXCEPT
                     !.ptr = nm[1], !.len = nm[2], !.acc = "read",
                     !.fresh = method.fresh]
           callee == Lookup(target, Str(method.str), heap, nextObj)
       IN /\ viewGen' = method.viewGen
          /\ IF method.threw \/ ~IsArray(HT_get(Tbl, argvRef), heap)
             THEN Escapes(res)
             ELSE Finish(res,
                    IF callee.threw THEN callee
                    ELSE ReflectApply(callee.value, how, FALSE, heap, nextObj),
                    Catches(build), TRUE)
  /\ UNCHANGED <<bridgeVars, mem, memGen, hasMalloc, track, guest>>

emlite_val_construct_new ==
  /\ inited
  /\ \E in \in CallInputs, how \in guest.hows :
       IF ~IsArray(HT_get(Tbl, in[2]), heap)
       THEN Escapes(Result("construct_new", -1, FALSE, NoVal))
       ELSE Finish(Result("construct_new", -1, FALSE, NoVal),
              ReflectApply(HT_get(Tbl, in[1]), how, TRUE, heap, nextObj),
              Catches(build), TRUE)
  /\ UNCHANGED <<bridgeVars, memVars, track, guest>>

emlite_val_func_call ==
  /\ inited
  /\ \E in \in CallInputs, how \in guest.hows :
       IF ~IsArray(HT_get(Tbl, in[2]), heap)
       THEN Escapes(Result("func_call", -1, FALSE, NoVal))
       ELSE Finish(Result("func_call", -1, FALSE, NoVal),
              ReflectApply(HT_get(Tbl, in[1]), how, FALSE, heap, nextObj),
              Catches(build), TRUE)
  /\ UNCHANGED <<bridgeVars, memVars, track, guest>>

\* ------------------------------------------------------ re-entrant calls
\* The elements of an array, in order.
ArrayItems(H, arr) ==
  [i \in 1 .. NumVal(H[Id(arr)].props[KeyLength]) |->
     H[Id(arr)].props[Str(Digits(i - 1))]]

\* EMLITE_VALMAP.get(argvRef).map((h) => EMLITE_VALMAP.get(h))
Unmarshal(T, H, argvRef) ==
  LET hs == ArrayItems(H, HT_get(T, argvRef)) IN
  [i \in DOMAIN hs |-> HT_get(T, NumVal(hs[i]))]

\* A callee that is given the handles and looks them up when it reads them.
Received_Late(f, T) == [i \in DOMAIN f.handles |-> HT_get(T, NumVal(f.handles[i]))]

\* What the callee reads of its arguments while it runs: the array `args`
\* that was built before Reflect.apply / Reflect.construct was entered.
Received(f, T) == f.args

\* <<target, argument list>> of a call whose callee re-enters the guest.
DispatchInputs == {<<9, 7>>}
MethodInputs == {<<4, 7>>}

\* The first half of a call whose target is callable and whose argument list
\* is an array: the arguments are unmarshaled and the callee is entered. The
\* guest's operations that follow, until the callee returns, are made by the
\* guest code the callee calls back.
Enter(op, callee, in) ==
  /\ frame = NoFrame
  /\ IsCallable(callee)
  /\ IsArray(HT_get(Tbl, in[2]), heap)
  /\ frame' = [op |-> op, callee |-> callee,
               handles |-> ArrayItems(heap, HT_get(Tbl, in[2])),
               args |-> Unmarshal(Tbl, heap, in[2]), call |-> in]
  /\ last' = [Result("enter", -1, FALSE, NoVal) EXCEPT !.call = in]
  /\ run' = NoRun
  /\ UNCHANGED <<build, inited, epoch, exports, adapterInited, tblVars, objVars,
                 mem, memGen, hasMalloc, track, guest>>

emlite_val_func_call_enter ==
  /\ inited
  /\ \E in \in DispatchInputs : Enter("func_call", HT_get(Tbl, in[1]), in)
  /\ UNCHANGED viewGen

emlite_val_construct_new_enter ==
  /\ inited
  /\ \E in \in DispatchInputs : Enter("construct_new", HT_get(Tbl, in[1]), in)
  /\ UNCHANGED viewGen

emlite_val_obj_call_enter ==
  /\ inited
  /\ \E in \in MethodInputs, nm \in NameInputs :
       LET method == cStr(nm[1], nm[2]) IN
       /\ ~method.threw
       /\ viewGen' = method.viewGen
       /\ Enter("obj_call",
                PropGet(heap, HT_get(Tbl, in[1]), Str(method.str)), in)

\* The second half: the callee returns its first argument (a constructor:
\* a new object) or throws, and the operation ends with
\* `return EMLITE_VALMAP.add(ret)`.
Leave ==
  /\ inited
  /\ frame # NoFrame
  /\ \E how \in guest.hows :
       LET got == Received(frame, Tbl)
           d == IF how = "returns" /\ frame.op # "construct_new"
                THEN Outcome(FALSE, IF got = <<>> THEN Undefined ELSE got[1],
                             heap, nextObj)
                ELSE HostCall(how, frame.op = "construct_new", heap, nextObj)
       IN Finish([Result(frame.op, -1, FALSE, NoVal) EXCEPT
                    !.call = frame.call, !.args = got],
                 d, Catches(build), TRUE)
  /\ frame' = NoFrame
  /\ UNCHANGED <<build, inited, epoch, exports, adapterInited, memVars, track, guest>>

\* ------------------------------------------------------- callback bridge
\* The closure jsFn that make_callback builds is a host function whose kind
\* names the bridge that built it and whose captured fidx and data are kept
\* under two internal keys.
SlotFidx == <<"slot", <<1>>>>
SlotData == <<"slot", <<2>>>>
JsFnCls(impl) ==
  CASE impl = "emlite" -> "jsFn.emlite"
    [] impl = "adapter" -> "jsFn.adapter"
    [] impl = "wasip2" -> "jsFn.wasip2"
JsFnClasses == {"jsFn.emlite", "jsFn.adapter", "jsFn.wasip2"}
JsFn(impl, fidx, data) ==
  HostObject(JsFnCls(impl), (SlotFidx :> Num(fidx)) @@ (SlotData :> Num(data)))

FidxInputs == {1}
DataInputs == {5}

\* return EMLITE_VALMAP.add(jsFn)
MakeCallback(op, impl) ==
  /\ inited
  /\ nextObj < MaxObjs
  /\ \E fidx \in FidxInputs, data \in DataInputs :
       heap' = MapSet(heap, nextObj, JsFn(impl, fidx, data))
  /\ nextObj' = nextObj + 1
  /\ Register(op, Fn(nextObj))
  /\ UNCHANGED <<bridgeVars, memVars, track, guest>>

\* emlite_val_make_callback of emlite.js and of part_001.
emlite_val_make_callback ==
  build \in {"emlite", "legacy"} /\ MakeCallback("make_callback", "emlite")

\* emliteValMakeCallback of adapter.js and of wasip2adapter.js, which wrap
\* the env of emlite.js.
adapter_emliteValMakeCallback ==
  build = "emlite" /\ MakeCallback("adapter.make_callback", "adapter")

wasip2_emliteValMakeCallback ==
  build = "emlite" /\ MakeCallback("wasip2.make_callback", "wasip2")

\* An array of the given elements.
ArrayOf(items) ==
  HostObject("Array",
    [k \in {KeyLength} \cup {Str(Digits(i - 1)) : i \in 1 .. Len(items)} |->
       IF k = KeyLength THEN Num(Len(items))
       ELSE items[(CHOOSE i \in 1 .. Len(items) : Str(Digits(i - 1)) = k)]])

\* The bounds of CanAdd, for a table T.
CanAddIn(T, value) ==
  IF value \in DOMAIN T.v2h
  THEN T.v2h[value] \in DOMAIN T.h2e => T.h2e[T.v2h[value]].refs < MaxRefs
  ELSE T.next < guest.cap

\* values.map((v) => VAL().add(v)): the handles, the table after the adds and
\* whether every add was within the bounds.
RECURSIVE AddAll(_, _)
AddAll(T, values) ==
  IF values = <<>> THEN [T |-> T, handles |-> <<>>, ok |-> TRUE]
  ELSE LET r == HT_add(T, Head(values))
           rest == AddAll(r.T, Tail(values))
       IN [T |-> rest.T, handles |-> <<Num(r.h)>> \o rest.handles,
           ok |-> CanAddIn(T, Head(values)) /\ rest.ok]

\* What the host calls a callback with, and what the guest dispatcher
\* (__indirect_function_table.get(fidx), the adapters' apply) does, its code
\* being the guest's: it returns a handle or raises.
CallbackArgs == {<<Bool(TRUE)>>, <<Undefined, Bool(TRUE)>>}
GuestReturns == {1, 3, 8}
GuestOutcomes ==
  {[threw |-> FALSE, ret |-> r, thrown |-> NoVal] : r \in GuestReturns}
    \cup {[threw |-> TRUE, ret |-> -1, thrown |-> Str(HostMessage)]}

\* jsFn(...values): one host call of a callback.
jsFn ==
  /\ inited
  /\ \E id \in DOMAIN heap, values \in CallbackArgs, g \in GuestOutcomes :
       /\ heap[id].cls \in JsFnClasses
       /\ LET cls == heap[id].cls
              fidx == NumVal(heap[id].props[SlotFidx])
              data == NumVal(heap[id].props[SlotData])
              marshal == IF cls = "jsFn.adapter" THEN AddAll(Tbl, values)
                         ELSE [T |-> Tbl, handles |-> values, ok |-> TRUE]
              arr == Obj(nextObj)
              argv == HT_add(marshal.T, arr)
              H1 == MapSet(heap, nextObj, ArrayOf(marshal.handles))
              caught == IF g.threw /\ cls = "jsFn.emlite" /\ Catches(build)
                        THEN normalizeThrown(g.thrown, H1, nextObj + 1)
                        ELSE Outcome(g.threw, NoVal, H1, nextObj + 1)
              escapes == g.threw /\ ~(cls = "jsFn.emlite" /\ Catches(build))
              res == IF escapes THEN NoVal
                     ELSE IF g.threw THEN caught.value
                     ELSE IF cls = "jsFn.emlite" THEN Num(g.ret)
                     ELSE HT_get(argv.T, g.ret)
          IN /\ marshal.ok
             /\ CanAddIn(marshal.T, arr)
             /\ caught.nextObj <= MaxObjs
             /\ SetTbl(argv.T)
             /\ heap' = caught.heap
             /\ nextObj' = caught.nextObj
             /\ last' = [Result("jsFn", g.ret, escapes, arr) EXCEPT
                           !.disp = IF g.threw THEN "threw" ELSE "returned",
                           !.thrown = g.thrown, !.res = res, !.args = values,
                           !.call = <<id, fidx, argv.h, data>>]
             /\ run' = NoRun
  /\ UNCHANGED <<bridgeVars, memVars, track, guest>>

\* The handles the guest passes to emlite_val_throw: undefined, globalThis,
\* the first three handles issued and one that is not registered.
ThrowInputs == {1, 4, 7, 8, 9, MaxNext + 1}

\* One host call of a callback of the core bridge whose guest code calls
\* emlite_val_throw(n): `throw EMLITE_VALMAP.get(n)` unwinds the guest up to
\* the try of jsFn.
jsFn_emlite_val_throw ==
  /\ inited
  /\ \E id \in DOMAIN heap, values \in CallbackArgs, n \in ThrowInputs :
       /\ heap[id].cls = "jsFn.emlite"
       /\ LET arr == Obj(nextObj)
              argv == HT_add(Tbl, arr)
              H1 == MapSet(heap, nextObj, ArrayOf(values))
              thrown == HT_get(argv.T, n)
              caught == IF Catches(build)
                        THEN normalizeThrown(thrown, H1, nextObj + 1)
                        ELSE Outcome(TRUE, NoVal, H1, nextObj + 1)
          IN /\ CanAddIn(Tbl, arr)
             /\ caught.nextObj <= MaxObjs
             /\ SetTbl(argv.T)
             /\ heap' = caught.heap
             /\ nextObj' = caught.nextObj
             /\ last' = [Result("jsFn", -1, ~Catches(build), arr) EXCEPT
                           !.disp = "threw", !.thrown = thrown,
                           !.res = caught.value, !.args = values,
                           !.call = <<id, NumVal(heap[id].props[SlotFidx]), argv.h,
                                      NumVal(heap[id].props[SlotData])>>]
             /\ run' = NoRun
  /\ UNCHANGED <<bridgeVars, memVars, track, guest>>

\* What holds a host object alive besides the host's own variables: the table
\* keeps every registered value in _h2e (as the entry's value) and in _v2h
\* (as the key), and a live host object keeps what its properties refer to.
Referenced_Weak(T, H, id) == FALSE

Referenced(T, H, id) ==
  \/ \E h \in DOMAIN T.h2e : T.h2e[h].value \in {Obj(id), Fn(id)}
  \/ \E v \in DOMAIN T.v2h : v \in {Obj(id), Fn(id)}
  \/ \E o \in DOMAIN H \ {id} :
       \E k \in DOMAIN H[o].props : H[o].props[k] \in {Obj(id), Fn(id)}

\* A callable that was reclaimed: its captured fidx and data are remembered.
Collected(obj) == [obj EXCEPT !.cls = "collected"]

\* The argument apply was not given.
NotPassed == -1

\* new FinalizationRegistry((data) => { try { apply(0, data); } catch {} }),
\* fired by the host's collector for a jsFn registered by
\* FR.register(jsFn, data) once nothing refers to the jsFn any more. call is
\* <<callable, the three positional arguments of apply>>.
FR_callback ==
  /\ inited
  /\ build = "emlite"
  /\ \E id \in DOMAIN heap, g \in GuestOutcomes :
       /\ heap[id].cls = "jsFn.wasip2"
       /\ ~Referenced(Tbl, heap, id)
       /\ heap' = MapSet(heap, id, Collected(heap[id]))
       /\ last' = [Result("FR_callback", -1, FALSE, NoVal) EXCEPT
                     !.disp = IF g.threw THEN "threw" ELSE "returned",
                     !.thrown = g.thrown,
                     !.call = <<id, 0, NumVal(heap[id].props[SlotData]),
                                NotPassed>>]
  /\ run' = NoRun
  /\ UNCHANGED <<bridgeVars, tblVars, nextObj, memVars, track, guest>>

Next ==
  \/ emlite_init_handle_table
  \/ emlite_val_new_object
  \/ emlite_val_make_bool
  \/ emlite_val_make_int
  \/ emlite_val_inc_ref
  \/ emlite_val_dec_ref
  \/ emlite_reset_object_map

Spec == Init /\ [][Next]_vars

\* The operations of part_001 (it has no emlite_init_handle_table and no
\* emlite_val_make_bool).
NextLegacy ==
  \/ emlite_val_new_object
  \/ emlite_val_make_int
  \/ emlite_val_inc_ref
  \/ emlite_val_dec_ref
  \/ emlite_reset_object_map

InitLegacy == InitBridge("legacy") /\ guest = TableGuest /\ track = FALSE /\ hasMalloc = TRUE

SpecLegacy == InitLegacy /\ [][NextLegacy]_vars

\* The table of emlite.js alone, with the runs of inc_ref / dec_ref followed.
NextRun ==
  \/ emlite_init_handle_table
  \/ emlite_val_make_int
  \/ emlite_val_inc_ref
  \/ emlite_val_dec_ref
  \/ emlite_reset_object_map

InitRun == InitBridge("emlite") /\ guest = TableGuest /\ track = TRUE /\ hasMalloc = TRUE

SpecRun == InitRun /\ [][NextRun]_vars

\* The memory-view synchronizer and the string operations of emlite.js.
\* typeof v
TypeOf(v) ==
  CASE Tag(v) = "undefined" -> <<117, 110, 100, 101, 102, 105, 110, 101, 100>>
    [] Tag(v) = "boolean" -> <<98, 111, 111, 108, 101, 97, 110>>
    [] Tag(v) = "number" -> <<110, 117, 109, 98, 101, 114>>
    [] Tag(v) = "bigint" -> <<98, 105, 103, 105, 110, 116>>
    [] Tag(v) = "string" -> <<115, 116, 114, 105, 110, 103>>
    [] Tag(v) = "symbol" -> <<115, 121, 109, 98, 111, 108>>
    [] Tag(v) = "function" -> <<102, 117, 110, 99, 116, 105, 111, 110>>
    [] OTHER -> <<111, 98, 106, 101, 99, 116>>

emlite_val_typeof ==
  /\ inited
  /\ \E n \in StringHandles :
       LET str == Str(TypeOf(HT_get(Tbl, n))) IN
       \E a \in MallocOutcomes(Len(Utf8Encode(str[2] \o <<0>>))) :
         StringOut("typeof", copyStringToWasm(str, a), n, str)
  /\ UNCHANGED <<bridgeVars, tblVars, objVars, hasMalloc, track, guest>>

NextMem ==
  \/ emlite_init_handle_table
  \/ GuestMemoryGrow
  \/ GuestStore
  \/ emscripten_notify_memory_growth
  \/ emlite_val_make_str
  \/ emlite_val_make_str_utf16
  \/ emlite_val_get_value_string
  \/ emlite_val_get_value_string_utf16
  \/ emlite_val_typeof

\* The module may or may not export emlite_malloc.
InitStrings == InitBridge("emlite") /\ guest = TableGuest /\ track = FALSE /\ hasMalloc \in BOOLEAN

SpecMem == InitStrings /\ [][NextMem]_vars

\* The invocation bridge of both builds.
NextCall ==
  \/ emlite_init_handle_table
  \/ emlite_val_new_array
  \/ emlite_val_push
  \/ emlite_val_get
  \/ emlite_val_set
  \/ emlite_val_has
  \/ emlite_val_obj_call
  \/ emlite_val_construct_new
  \/ emlite_val_func_call

InitCall ==
  /\ \E b \in {"emlite", "legacy"} : InitBridge(b)
  /\ track = FALSE
  /\ guest = TableGuest
  /\ hasMalloc = TRUE

SpecCall == InitCall /\ [][NextCall]_vars

\* The reserved singletons: the guest makes booleans and an array, reads a
\* property that is missing, calls a host function that returns nothing,
\* releases handles and resets the table.
SingletonGuest ==
  [TableGuest EXCEPT !.gets = {<<4, 2>>, <<7, 2>>},
                     !.hows = {"returns", "returnsUndefined"}]

NextSingleton ==
  \/ emlite_init_handle_table
  \/ emlite_val_new_array
  \/ emlite_val_make_bool
  \/ emlite_val_get
  \/ emlite_val_obj_call
  \/ emlite_val_dec_ref
  \/ emlite_reset_object_map

InitSingleton ==
  /\ InitBridge("emlite")
  /\ track = FALSE
  /\ guest = SingletonGuest
  /\ hasMalloc = TRUE

SpecSingleton == InitSingleton /\ [][NextSingleton]_vars

\* The version handshake and the operations of a bridge in use.
NextHandshake ==
  \/ setExports
  \/ wasip2_emliteInitHandleTable
  \/ emlite_init_handle_table
  \/ emlite_val_new_object
  \/ emlite_val_make_bool

InitHandshake ==
  /\ \E b \in {"emlite", "legacy"} : InitConstructed(b, InitMem)
  /\ exports = "unset"
  /\ track = FALSE
  /\ guest = TableGuest
  /\ hasMalloc = TRUE

SpecHandshake == InitHandshake /\ [][NextHandshake]_vars

\* The table's own decRef, with the operations that raise refcounts.
NextDecRef ==
  \/ emlite_init_handle_table
  \/ emlite_val_make_int
  \/ emlite_val_inc_ref
  \/ HandleTable_decRef

InitDecRef ==
  /\ \E b \in {"emlite", "legacy"} : InitBridge(b)
  /\ track = FALSE
  /\ guest = TableGuest
  /\ hasMalloc = TRUE

SpecDecRef == InitDecRef /\ [][NextDecRef]_vars

\* 32-bit integers: the guest passes the patterns 0, 7, 2^31 - 1, 2^31 and
\* 2^32 - 1 and reads the values back.
NumGuest ==
  [TableGuest EXCEPT
     !.ints = {Wire(0), Wire(7), <<Limb \div 2 - 1, Limb - 1>>,
               <<Limb \div 2, 0>>, <<Limb - 1, Limb - 1>>}]

NextNum ==
  \/ emlite_init_handle_table
  \/ emlite_val_make_int
  \/ emlite_val_make_uint
  \/ emlite_val_get_value_int
  \/ emlite_val_get_value_uint

InitNum ==
  /\ InitBridge("emlite")
  /\ track = FALSE
  /\ guest = NumGuest
  /\ hasMalloc = TRUE

SpecNum == InitNum /\ [][NextNum]_vars

\* 64-bit integers.
NextBig ==
  \/ emlite_init_handle_table
  \/ emlite_val_make_bigint
  \/ emlite_val_make_biguint
  \/ emlite_val_dec_ref

InitBig ==
  /\ InitBridge("emlite")
  /\ track = FALSE
  /\ guest = TableGuest
  /\ hasMalloc = TRUE

SpecBig == InitBig /\ [][NextBig]_vars

\* String extraction of values of every kind, by the core bridge and by
\* the adapter.
CoerceGuest == [TableGuest EXCEPT !.ints = {Wire(0), Wire(7)}]

NextCoerce ==
  \/ emlite_init_handle_table
  \/ emlite_val_new_object
  \/ emlite_val_make_int
  \/ emlite_val_get_value_string
  \/ emlite_val_get_value_string_utf16
  \/ adapter_emliteValGetValueString
  \/ adapter_emliteValGetValueStringUtf16

InitCoerce ==
  /\ InitBridge("emlite")
  /\ track = FALSE
  /\ guest = CoerceGuest
  /\ hasMalloc = TRUE

SpecCoerce == InitCoerce /\ [][NextCoerce]_vars

\* Strings written to the guest memory and read back.
NextText ==
  \/ Emlite_copyStringToWasm
  \/ Emlite_copyStringToWasmUtf16
  \/ Emlite_cStr
  \/ Emlite_cStrUtf16

InitText ==
  /\ InitBridgeWith("emlite", TextMem)
  /\ track = FALSE
  /\ guest = TableGuest
  /\ hasMalloc = TRUE

SpecText == InitText /\ [][NextText]_vars

\* Properties: the guest's data is the name "undefined"; it makes the name
\* and an object, and writes, tests and reads that property of globalThis
\* and of the object.
PropsMem == KeyUndefined[2]
PropsGuest ==
  [TableGuest EXCEPT
     !.strs = {<<0, 9>>},
     !.sets = {<<4, 7, 3>>, <<8, 7, 3>>},
     !.gets = {<<4, 7>>, <<8, 7>>},
     !.owns = {<<4, 0, 9>>, <<8, 0, 9>>, <<0, 0, 1>>}]

NextProps ==
  \/ emlite_init_handle_table
  \/ emlite_val_new_object
  \/ emlite_val_make_str
  \/ emlite_val_set
  \/ emlite_val_obj_has_own_prop
  \/ emlite_val_get

InitProps ==
  /\ InitBridgeWith("emlite", PropsMem)
  /\ track = FALSE
  /\ guest = PropsGuest
  /\ hasMalloc = TRUE

SpecProps == InitProps /\ [][NextProps]_vars

\* Arrays: new_array, push and get.
NextArray ==
  \/ emlite_init_handle_table
  \/ emlite_val_new_array
  \/ emlite_val_make_int
  \/ emlite_val_push
  \/ emlite_val_get

InitArray ==
  /\ InitBridge("emlite")
  /\ track = FALSE
  /\ guest = ArrayGuest
  /\ hasMalloc = TRUE

SpecArray == InitArray /\ [][NextArray]_vars

\* The callback bridge: the three make_callback and the host's calls.
NextCallback ==
  \/ emlite_init_handle_table
  \/ emlite_val_make_callback
  \/ adapter_emliteValMakeCallback
  \/ wasip2_emliteValMakeCallback
  \/ jsFn
  \/ emlite_val_dec_ref

InitCallback ==
  /\ InitBridge("emlite")
  /\ track = FALSE
  /\ guest = TableGuest
  /\ hasMalloc = TRUE

SpecCallback == InitCallback /\ [][NextCallback]_vars

\* The reclamation of callbacks: wasip2 callables are made, called, released
\* and, once nothing refers to them, reclaimed.
NextFinalize ==
  \/ emlite_init_handle_table
  \/ wasip2_emliteValMakeCallback
  \/ jsFn
  \/ emlite_val_inc_ref
  \/ emlite_val_dec_ref
  \/ emlite_reset_object_map
  \/ FR_callback

InitFinalize ==
  /\ InitBridge("emlite")
  /\ track = FALSE
  /\ guest = TableGuest
  /\ hasMalloc = TRUE

SpecFinalize == InitFinalize /\ [][NextFinalize]_vars

\* The making of tables: the adapter's first use and its explicit
\* initialization, and emlite_init_handle_table of an Emlite instance (the
\* adapter's own or another one: each assigns globalThis.EMLITE_VALMAP, the
\* table every instance's operations look up).
NextTables ==
  \/ adapter_emliteInitHandleTable
  \/ adapter_emliteValNewObject
  \/ emlite_init_handle_table
  \/ emlite_val_make_int
  \/ emlite_val_inc_ref
  \/ emlite_val_dec_ref

InitTables ==
  /\ InitBridge("emlite")
  /\ track = FALSE
  /\ guest = TableGuest
  /\ hasMalloc = TRUE

SpecTables == InitTables /\ [][NextTables]_vars

\* Stale handles: handles are issued, released and used after their release,
\* through the ABI and on the table itself; the handle of each inc_ref and
\* dec_ref is followed in run.
NextStale ==
  \/ emlite_init_handle_table
  \/ emlite_val_make_int
  \/ emlite_val_inc_ref
  \/ emlite_val_dec_ref
  \/ HandleTable_incRef
  \/ HandleTable_decRef
  \/ HandleTable_get

InitStale ==
  /\ build \in {"emlite", "legacy"}
  /\ InitBridge(build)
  /\ track = TRUE
  /\ guest = TableGuest
  /\ hasMalloc = TRUE

SpecStale == InitStale /\ [][NextStale]_vars

\* Bigints read as 32-bit integers.
NextBig32 ==
  \/ emlite_init_handle_table
  \/ emlite_val_make_bigint
  \/ emlite_val_make_biguint
  \/ emlite_val_get_value_int
  \/ emlite_val_get_value_uint

InitBig32 ==
  /\ InitBridge("emlite")
  /\ track = FALSE
  /\ guest = TableGuest
  /\ hasMalloc = TRUE

SpecBig32 == InitBig32 /\ [][NextBig32]_vars

\* Refcount accounting: two integers are registered, again and again, and
\* their handles are counted up and down through the ABI and on the table
\* itself, with resets and a second table in between.
AccountGuest == [TableGuest EXCEPT !.ints = {Wire(7), Wire(8)}]

NextAccount ==
  \/ emlite_init_handle_table
  \/ emlite_val_make_int
  \/ emlite_val_inc_ref
  \/ emlite_val_dec_ref
  \/ HandleTable_incRef
  \/ HandleTable_decRef
  \/ emlite_reset_object_map

InitAccount ==
  /\ InitBridge("emlite")
  /\ track = TRUE
  /\ guest = AccountGuest
  /\ hasMalloc = TRUE

SpecAccount == InitAccount /\ [][NextAccount]_vars

\* The guest program of the re-entrant calls, in program order: on a new
\* table it makes an array (the first handle issued), an integer (the
\* second), pushes the integer's handle and makes a callback (the third).
Guest_new_array ==
  frame = NoFrame /\ next = NumReserved /\ emlite_val_new_array
Guest_make_int ==
  frame = NoFrame /\ next = NumReserved + 1 /\ emlite_val_make_int
Guest_push ==
  frame = NoFrame /\ next = NumReserved + 2 /\ emlite_val_push
Guest_make_callback ==
  frame = NoFrame /\ next = NumReserved + 2 /\ emlite_val_make_callback

\* What the guest does when the callee calls it back: it releases a handle
\* or resets the table.
CalledBack_dec_ref == frame # NoFrame /\ emlite_val_dec_ref
CalledBack_reset_object_map == frame # NoFrame /\ emlite_reset_object_map

\* Calls whose callee re-enters the guest: the guest makes an argument list
\* of one integer and a callback, calls a host function, and, called back
\* while the host function runs, releases handles or resets the table.
ReentrantGuest ==
  [TableGuest EXCEPT !.cap = MaxNext + 2, !.hows = {"returns", "throwsError"},
                     !.pushes = {<<7, 8>>}]

NextReentrant ==
  \/ emlite_init_handle_table
  \/ Guest_new_array
  \/ Guest_make_int
  \/ Guest_push
  \/ Guest_make_callback
  \/ emlite_val_func_call_enter
  \/ emlite_val_construct_new_enter
  \/ emlite_val_obj_call_enter
  \/ CalledBack_dec_ref
  \/ CalledBack_reset_object_map
  \/ Leave

InitReentrant ==
  /\ InitBridge("emlite")
  /\ track = FALSE
  /\ guest = ReentrantGuest
  /\ hasMalloc = TRUE

SpecReentrant == InitReentrant /\ [][NextReentrant]_vars

\* Callbacks of the core bridge whose guest code raises: the guest makes a
\* callback, an array and, by a call that fails, an Error; the host calls the
\* callback and the guest throws a value of the table or its dispatcher raises.
ThrowGuest == [TableGuest EXCEPT !.hows = {"throwsError"}]

NextThrow ==
  \/ emlite_init_handle_table
  \/ emlite_val_new_array
  \/ emlite_val_make_callback
  \/ emlite_val_func_call
  \/ jsFn
  \/ jsFn_emlite_val_throw

InitThrow ==
  /\ InitBridge("emlite")
  /\ track = FALSE
  /\ guest = ThrowGuest
  /\ hasMalloc = TRUE

SpecThrow == InitThrow /\ [][NextThrow]_vars

\* Numbers and bigints of the same integer value: the guest passes the
\* patterns 7 and 0xFFFFFFFF to the 32-bit constructors.
DedupGuest == [TableGuest EXCEPT !.ints = {Wire(7), <<Limb - 1, Limb - 1>>}]

NextDedup ==
  \/ emlite_init_handle_table
  \/ emlite_val_make_int
  \/ emlite_val_make_uint
  \/ emlite_val_make_double
  \/ emlite_val_make_bigint
  \/ emlite_val_make_biguint

InitDedup ==
  /\ InitBridge("emlite")
  /\ track = FALSE
  /\ guest = DedupGuest
  /\ hasMalloc = TRUE

SpecDedup == InitDedup /\ [][NextDedup]_vars

\* ------------------------------------------------------------------ claims
Live == DOMAIN h2e
Absent(h) == h \notin Live /\ HT_get(Tbl, h) = Undefined

\* C1: when a value that is registered is handed to add (by any operation
\* that registers its result), the operation returns the existing handle,
\* that entry's refcount grows by exactly 1 and nothing is allocated: the
\* live handles, every other entry, the reverse index and the counter are
\* unchanged.
C1_DedupAdd ==
  [][(last'.val /= NoVal /\ last'.val \in DOMAIN v2h)
       => /\ ~last'.threw
          /\ last'.ret = v2h[last'.val]
          /\ DOMAIN h2e' = DOMAIN h2e
          /\ \A h \in DOMAIN h2e :
               /\ h2e'[h].value = h2e[h].value
               /\ h2e'[h].refs = h2e[h].refs + (IF h = last'.ret THEN 1 ELSE 0)
          /\ v2h' = v2h
          /\ next' = next]_vars

\* A non-reserved value was handed to add a second time.
C1_Witness ==
  /\ last.val /= NoVal
  /\ last.ret > 6
  /\ last.ret \in Live
  /\ h2e[last.ret].value = last.val
  /\ h2e[last.ret].refs = 2

\* C2 as stated, for the handles above the reserved range: after n inc_ref
\* and n+1 dec_ref the handle is absent, after n and n it has its value.
C2_Original ==
  (run.h > 6 /\ run.r0 >= 1)
    => /\ run.decs = run.incs + 1 => Absent(run.h)
       /\ run.decs = run.incs
            => run.h \in Live /\ HT_get(Tbl, run.h) = run.v0

\* C2 (amended): for a handle h > 6 whose refcount is r when the run starts,
\* n inc_ref(h) followed by n + r (or more) dec_ref(h) leave get(h) absent,
\* and n inc_ref(h) followed by fewer than n + r dec_ref(h) leave get(h) the
\* original value, with refcount r + n - (the number of dec_ref).
C2_RefcountRun ==
  (run.h > 6 /\ run.r0 >= 1)
    => /\ run.decs >= run.incs + run.r0 => Absent(run.h)
       /\ run.decs < run.incs + run.r0
            => /\ run.h \in Live
               /\ HT_get(Tbl, run.h) = run.v0
               /\ Refs(run.h) = run.r0 + run.incs - run.decs

\* A handle of refcount 2 after no inc_ref and two dec_ref: absent.
C2_Witness ==
  /\ run.h > 6
  /\ run.r0 = 2
  /\ run.incs = 0
  /\ run.decs = 2
  /\ Absent(run.h)

\* C3: once the table exists, every reserved handle 0..6 is registered and
\* bound to the singleton the table's initialisation gave it, whatever
\* number of emlite_val_dec_ref calls and other operations have run.
C3_ReservedStay ==
  inited => \A h \in 0 .. 6 :
              h \in Live /\ h2e[h].value = ReservedValue(h, epoch)

\* Three emlite_val_dec_ref(6) in a row on the marker, whose refcount is 1.
C3_Witness ==
  /\ run.h = 6
  /\ run.r0 = 1
  /\ run.incs = 0
  /\ run.decs = 3
  /\ 6 \in Live

\* C4: after emlite_reset_object_map no handle above 6 is in the forward
\* map or the reverse index, and the handles 0..6 are all bound to their
\* original values.
C4_Reset ==
  last.op = "reset_object_map"
    => /\ \A h \in Live : h <= 6
       /\ \A v \in DOMAIN v2h : v2h[v] <= 6
       /\ \A h \in 0 .. 6 :
            h \in Live /\ h2e[h].value = ReservedValue(h, epoch)

\* C5: the forward map and the reverse index are inverses of each other.
C5_Inverse ==
  /\ \A h \in Live :
       h2e[h].value \in DOMAIN v2h /\ v2h[h2e[h].value] = h
  /\ \A v \in DOMAIN v2h :
       v2h[v] \in Live /\ h2e[v2h[v]].value = v

\* An eviction by dec_ref happened (7 is gone) while 8 is still registered.
C5_Witness ==
  /\ last.op = "dec_ref"
  /\ next = 9
  /\ 7 \notin Live
  /\ 8 \in Live
  /\ h2e[8].value \in DOMAIN v2h

\* C6: every live handle is below the counter; within one table the counter
\* never decreases, an add of a new value is given exactly the counter's
\* number and raises the counter by one (so a number is issued once), and
\* reset leaves the counter unchanged.
C6_NeverReused ==
  /\ [](\A h \in Live : h < next)
  /\ [][epoch' = epoch
         => /\ next' >= next
            /\ \A h \in DOMAIN h2e' \ DOMAIN h2e :
                 h = next /\ next' = next + 1 /\ last'.ret = h
            /\ last'.op = "reset_object_map" => next' = next]_vars

\* After 7 was evicted, a new value was given 8, not 7.
C6_Witness ==
  /\ last.val /= NoVal
  /\ last.ret = 8
  /\ 8 \in Live
  /\ h2e[8].refs = 1
  /\ 7 \notin Live

\* C7: whenever the host dispatch of emlite_val_obj_call,
\* emlite_val_construct_new or emlite_val_func_call throws, nothing
\* propagates to the guest and the operation returns a live handle whose
\* value is an error value carrying the original message: the thrown Error
\* itself, or an Error whose cause is the thrown value and whose message is
\* the thrown value's string (when it has one).
C7_DispatchContained ==
  (last.op \in {"obj_call", "construct_new", "func_call"} /\ last.disp = "threw")
    => /\ ~last.threw
       /\ last.ret \in Live
       /\ LET v == h2e[last.ret].value IN
            /\ IsError(v, heap)
            /\ IF IsError(last.thrown, heap) THEN v = last.thrown
               ELSE /\ KeyCause \in DOMAIN heap[Id(v)].props
                    /\ heap[Id(v)].props[KeyCause] = last.thrown
                    /\ ~StringThrows(last.thrown, heap)
                         => heap[Id(v)].props[KeyMessage]
                              = Str(StringOf(last.thrown, heap))

\* C8: in emlite.js, when the property access of emlite_val_get or
\* emlite_val_set throws, nothing propagates to the guest, and emlite_val_get
\* returns a live handle whose value is an error value.
C8_AccessContained ==
  (build = "emlite" /\ last.op \in {"get", "set"} /\ last.disp = "threw")
    => /\ ~last.threw
       /\ last.op = "get" => last.ret \in Live /\ IsError(h2e[last.ret].value, heap)

\* C11: a string-output operation that needs guest memory and finds the
\* allocator absent, or gets a null pointer from it, fails with an error: it
\* does not return a result.
C11_AllocationFailure ==
  last.alloc \in {"absent", "null"} => last.threw

\* C12: every host call of a callback re-enters the guest dispatcher with
\* (argvHandle, data), argvHandle registered and data the callback's data,
\* and, when the dispatcher returns a handle, the host call returns the
\* value that handle denotes in the table.
C12_CallbackResult ==
  last.op = "jsFn"
    => /\ last.call[3] \in Live
       /\ h2e[last.call[3]].value = last.val
       /\ last.call[4] = NumVal(heap[last.call[1]].props[SlotData])
       /\ last.disp = "returned"
            => ~last.threw /\ last.res = HT_get(Tbl, last.ret)

\* C13: the argument list handed to the guest by a callback invocation is
\* a registered host array whose elements are handles: element i is the
\* number of a live handle whose value is the i-th call-time argument.
C13_ArgvOfHandles ==
  last.op = "jsFn"
    => /\ last.call[3] \in Live
       /\ IsArray(h2e[last.call[3]].value, heap)
       /\ LET a == heap[Id(h2e[last.call[3]].value)].props IN
            /\ a[KeyLength] = Num(Len(last.args))
            /\ \A i \in 1 .. Len(last.args) :
                 /\ Tag(a[Str(Digits(i - 1))]) = "number"
                 /\ NumVal(a[Str(Digits(i - 1))]) \in Live
                 /\ h2e[NumVal(a[Str(Digits(i - 1))])].value = last.args[i]

\* C14: emlite_val_push(arr, hv) on an empty array followed by
\* emlite_val_get(arr, hi), hi a handle of the index 0, returns a handle
\* whose value is the value of hv.
C14_PushThenGet ==
  [][(/\ last.op = "push" /\ last.disp = "returned"
      /\ heap[Id(HT_get(Tbl, last.call[1]))].props[KeyLength] = Num(1)
      /\ last'.op = "get"
      /\ last'.call[1] = last.call[1]
      /\ HT_get(Tbl, last'.call[2]) = Num(0))
       => /\ ~last'.threw
          /\ last'.ret \in DOMAIN h2e'
          /\ h2e'[last'.ret].value = HT_get(Tbl, last.call[2])]_vars

\* C9: at every read or write of guest memory made by cStr, cStrUtf16,
\* copyStringToWasm and copyStringToWasmUtf16, the typed view used is over
\* the memory object's current buffer.
C9_FreshAtAccess == last.acc /= "none" => last.fresh

\* C10: emscripten_notify_memory_growth leaves the views over the current
\* buffer, and a string read that follows it at once does not throw, uses a
\* view over the current buffer and registers the text decoded from the
\* current buffer's bytes at [ptr, ptr + len).
C10_ReadAfterGrowth ==
  /\ last.op = "notify_memory_growth" => viewGen = memGen
  /\ (last.afterNotify /\ last.op \in {"make_str", "make_str_utf16"})
       => /\ ~last.threw
          /\ last.fresh
          /\ last.val =
               Str(IF last.op = "make_str"
                   THEN Utf8Decode(ViewBytes(last.ptr, last.len))
                   ELSE Utf16leDecode(ViewBytes(last.ptr, 2 * last.len)))

\* The memory grew, the guest stored "c" in the new page, the growth was
\* notified and emlite_val_make_str read "c" at the new page's address.
C10_Witness ==
  /\ last.afterNotify
  /\ last.op = "make_str"
  /\ memGen > 1
  /\ last.ptr >= PageBytes
  /\ last.val = Str(<<99>>)
  /\ last.ret \in Live
  /\ h2e[last.ret].value = Str(<<99>>)

\* The three parts of the set / has_own_prop / get law for a step from a
\* state whose last operation was the write w = emlite_val_set(obj, hk, hv)
\* with obj an object and the value of hk a string: set registered nothing;
\* a test of obj for that name, made next, returns true; a read of obj at
\* hk, made next, returns a handle of the value of hv.
SetToObject ==
  /\ last.op = "set"
  /\ IsObject(HT_get(Tbl, last.call[1]))
  /\ Tag(HT_get(Tbl, last.call[2])) = "string"

SetRegistersNothing == last'.op = "set" => UNCHANGED tblVars

TestedNext ==
  /\ last'.op = "obj_has_own_prop"
  /\ last'.call[1] = last.call[1]
  /\ last'.key = HT_get(Tbl, last.call[2])

TestedTrue == ~last'.threw /\ last'.ret = 1

ReadNext == last'.op = "get" /\ last'.call = <<last.call[1], last.call[2]>>

ReadValue ==
  /\ ~last'.threw
  /\ last'.ret \in DOMAIN h2e'
  /\ h2e'[last'.ret].value = HT_get(Tbl, last.call[3])

Signed(w) == NumW(IF w[1] < Limb \div 2 THEN w[1] ELSE w[1] - Limb, w[2])
Unsigned(w) == NumW(w[1], w[2])

\* The step reads, with operation get, the handle the last operation, made,
\* has just returned.
ReadsBack(made, get) ==
  /\ last.op = made
  /\ ~last.threw
  /\ last'.op = get
  /\ last'.call = <<last.ret>>

\* C16: emlite_val_get_value_int(emlite_val_make_int(x)) is x for every
\* 32-bit pattern x read as signed, and
\* emlite_val_get_value_uint(emlite_val_make_uint(u)) is u for every 32-bit
\* pattern u read as unsigned: the number computed is that integer and the
\* i32 the guest receives is the pattern it passed.
C16_RoundTrip32 ==
  [][/\ ReadsBack("make_int", "get_value_int")
          => last'.res = Signed(last.call[1]) /\ last'.out = last.call[1]
     /\ ReadsBack("make_uint", "get_value_uint")
          => last'.res = Unsigned(last.call[1]) /\ last'.out = last.call[1]]_vars

\* 2^32 - 1 was made with emlite_val_make_uint and read back as 2^32 - 1.
C16_Witness ==
  /\ last.op = "get_value_uint"
  /\ last.call[1] \in Live
  /\ h2e[last.call[1]].value = NumW(Limb - 1, Limb - 1)
  /\ last.res = NumW(Limb - 1, Limb - 1)
  /\ last.out = <<Limb - 1, Limb - 1>>

\* C17: emlite_val_get_value_uint(emlite_val_make_int(x)) is x mod 2^32:
\* the number computed is the unsigned reading of x's 32-bit pattern.
C17_SignedAsUnsigned ==
  [][ReadsBack("make_int", "get_value_uint")
       => /\ last'.res = Unsigned(last.call[1])
          /\ last'.res[2][1] \in 0 .. Limb - 1]_vars

\* -1 was made with emlite_val_make_int and read as 4294967295.
C17_Witness ==
  /\ last.op = "get_value_uint"
  /\ last.call[1] \in Live
  /\ h2e[last.call[1]].value = NumW(-1, Limb - 1)
  /\ last.res = NumW(Limb - 1, Limb - 1)

\* C18: emlite_val_make_biguint registers, for the signed 64-bit wire value
\* w, the bigint w when w >= 0 and w + 2^64 when w < 0; the registered
\* value is never negative.
C18_BigUintNormalized ==
  (last.op = "make_biguint" /\ ~last.threw)
    => LET p == last.call[1]
           top == IF p[1] >= Limb \div 2 THEN p[1] - Limb ELSE p[1]
           w == <<IF top >= 0 THEN top ELSE top + Limb, p[2], p[3], p[4]>> IN
       /\ last.ret \in Live
       /\ h2e[last.ret].value = <<"bigint", w>>
       /\ h2e[last.ret].value[2][1] >= 0

\* emlite_val_make_biguint received -1 and registered 2^64 - 1.
C18_Witness ==
  /\ last.op = "make_biguint"
  /\ last.call[1] = <<Limb - 1, Limb - 1, Limb - 1, Limb - 1>>
  /\ last.ret \in Live
  /\ h2e[last.ret].value = <<"bigint", <<Limb - 1, Limb - 1, Limb - 1, Limb - 1>>>>

\* C19: a string written with copyStringToWasm and read back with cStr over
\* its byte length is the string written, the empty string included; a
\* string written with copyStringToWasmUtf16 and read back with cStrUtf16
\* over its length is the same sequence of code units.
C19_StringRoundTrip ==
  (last.op \in {"cStr", "cStrUtf16"} /\ ~last.threw) => last.res = last.args[1]

\* C20: string extraction of a handle whose value is not a string returns
\* the value's textual representation to the guest: the adapter returns the
\* text; the core bridge returns a pointer, not null, to the text's bytes
\* (UTF-8, or 16-bit code units) in the guest memory.
C20_CoercesToText ==
  LET v == last.args[1]
      text == StringOf(v, heap) IN
  /\ (last.op \in {"adapter_get_value_string", "adapter_get_value_string_utf16"}
        /\ ~IsStringValue(v))
       => ~last.threw /\ last.res = Str(text)
  /\ (last.op = "get_value_string" /\ ~IsStringValue(v))
       => /\ ~last.threw
          /\ last.ret > 0
          /\ ViewBytes(last.ret, Len(Utf8Encode(text))) = Utf8Encode(text)
  /\ (last.op = "get_value_string_utf16" /\ ~IsStringValue(v))
       => /\ ~last.threw
          /\ last.ret > 0
          /\ ViewBytes(last.ret, 2 * Len(text)) = Utf16leBytes(text)

\* C21: right after initialization the table holds exactly the handles
\* 0..6, bound in order to null, undefined, false, true, globalThis,
\* console and the marker, each with refcount at least 1, and a value that
\* is new gets handle 7; in every later state the singletons are still
\* bound, and an operation whose registered result is one of them returns
\* its reserved handle.
C21_Singletons ==
  /\ last.op = "init_handle_table"
       => /\ Live = 0 .. 6
          /\ next = 7
          /\ HT_add(Tbl, Num(7)).h = 7
  /\ inited
       => \A h \in 0 .. 6 :
            /\ h \in Live
            /\ h2e[h].value = ReservedValue(h, epoch)
            /\ h2e[h].refs >= 1
            /\ (last.val = ReservedValue(h, epoch) /\ ~last.threw) => last.ret = h

\* A host function called with emlite_val_obj_call returned undefined and
\* the operation returned handle 1, whose refcount went up to 2.
C21_Witness ==
  /\ last.op = "obj_call"
  /\ last.disp = "returned"
  /\ last.val = Undefined
  /\ last.ret = 1
  /\ h2e[1].refs = 2

\* C22: whether the guest's version entry point is absent, returns another
\* version or returns the host's, setExports and the wasip2 adapter's
\* emliteInitHandleTable complete and leave the bridge usable (exports
\* stored, table initialized), and they warn, once, exactly when the entry
\* point is absent or the versions differ.
C22_Handshake ==
  LET target == last.call[1]
      differs == target = <<>> \/ target[1] /= HostVersion(build) IN
  /\ last.op = "setExports"
       => /\ ~last.threw
          /\ exports = "set"
          /\ Len(last.out) = (IF differs THEN 1 ELSE 0)
  /\ last.op = "wasip2_emliteInitHandleTable"
       => /\ ~last.threw
          /\ inited
          /\ Len(last.out) = (IF differs THEN 1 ELSE 0)

\* C23: decRef(h) returns true exactly when the call evicted h (h was
\* registered before it and is not after it), and false otherwise.
C23_DecRefResult ==
  [][last'.op = "decRef"
       => ((last'.ret = 1)
             <=> (last'.call[1] \in Live /\ last'.call[1] \notin DOMAIN h2e'))]_vars

\* C24: when the weak-tracking signal fires for a callable made by
\* make_callback(fidx, data), the release call goes through the dispatcher
\* with the sentinel 0 in the argument-list position and data in the
\* closure-data position, as apply(fidx, argvHandle, data) has them, and a
\* failure of the release call never reaches host code.
C24_ReleaseArguments ==
  last.op = "FR_callback" =>
    /\ last.call[3] = 0
    /\ last.call[4] = NumVal(heap[last.call[1]].props[SlotData])
    /\ ~last.threw

\* C29: the reclamation notification of a callback fires only for a callable
\* that is in neither map of the handle table (its handle was evicted by a
\* decRef to zero, by a reset or by the replacement of the table), and at most
\* once for each callable: a callable that was reclaimed stays as it is.
C29_ReclaimAfterEviction ==
  [][/\ last'.op = "FR_callback" =>
          LET id == last'.call[1] IN
          /\ heap[id].cls = "jsFn.wasip2"
          /\ heap'[id].cls = "collected"
          /\ Fn(id) \notin DOMAIN v2h
          /\ \A h \in Live : h2e[h].value # Fn(id)
     /\ \A id \in DOMAIN heap :
          heap[id].cls = "collected" => heap'[id] = heap[id]]_vars

\* A callable that was registered under handle 7, called by the host and
\* released by the guest has been reclaimed.
C29_Witness ==
  /\ last.op = "FR_callback"
  /\ heap[last.call[1]].cls = "collected"
  /\ next > NumReserved
  /\ \A h \in Live : h2e[h].value # Fn(last.call[1])

\* C25: the handle table is created once per bridge instance: a handle issued
\* before a call of the initialization operation (emlite_init_handle_table,
\* the adapter's emliteInitHandleTable, the adapter's first use) or before
\* the initialization of another Emlite instance is bound to the same value
\* afterwards.
C25_TableCreatedOnce ==
  [][epoch' # epoch =>
       \A h \in Live : h \in DOMAIN h2e' /\ h2e'[h].value = h2e[h].value]_vars

\* C26: an operation on a stale handle changes nothing: get returns
\* undefined, and incRef, decRef, emlite_val_inc_ref and emlite_val_dec_ref
\* leave the forward map, the reverse index, every refcount and the
\* allocation counter as they were, so that the handle stays unregistered.
StaleOps == {"get", "incRef", "decRef", "inc_ref", "dec_ref"}
StaleTarget(l, r) == IF l.op \in {"inc_ref", "dec_ref"} THEN r.h ELSE l.call[1]

C26_StaleChangesNothing ==
  [][(last'.op \in StaleOps /\ StaleTarget(last', run') \notin Live) =>
       /\ h2e' = h2e
       /\ v2h' = v2h
       /\ next' = next
       /\ last'.op = "get" => last'.val = Undefined
       /\ last'.op = "decRef" => last'.ret = 0
       /\ ~last'.threw]_vars

\* inc_ref was called on a handle that had been issued and evicted, and the
\* handle is still not registered.
C26_Witness ==
  /\ last.op = "inc_ref"
  /\ run.h > 6
  /\ run.h < next
  /\ run.h \notin Live
  /\ run.r0 = 0

\* C27: for a handle whose value is a bigint b made by make_bigint or
\* make_biguint, get_value_int returns b mod 2^32 read as a signed 32-bit
\* integer and get_value_uint returns b mod 2^32, exactly: with
\* b = l3 * 2^48 + l2 * 2^32 + l1 * 2^16 + l0, the result's 32-bit pattern is
\* l1 * 2^16 + l0 and its sign is that of the pattern's top bit (signed) or
\* none (unsigned).
ReadBig == HT_get(Tbl, last.call[1])
C27_BigLow32 ==
  (last.op \in {"get_value_int", "get_value_uint"} /\ Tag(ReadBig) = "bigint") =>
    /\ last.out = <<ReadBig[2][3], ReadBig[2][4]>>
    /\ last.res[2][2] = ReadBig[2][4]
    /\ last.res[2][1] =
         IF last.op = "get_value_int" /\ ReadBig[2][3] >= Limb \div 2
         THEN ReadBig[2][3] - Limb
         ELSE ReadBig[2][3]

\* get_value_int of 2^63 - 1, which is beyond 2^53, is -1.
C27_Witness ==
  /\ last.op = "get_value_int"
  /\ ReadBig = BigW(<<Limb \div 2 - 1, Limb - 1, Limb - 1, Limb - 1>>)
  /\ last.res = NumW(-1, Limb - 1)

\* What one step adds to the quantity
\* (adds that returned h) + (incRef(h)) - (decRef(h)) of a handle h: the
\* calls on a handle that is not registered are not counted.
AddReturned(h) == last'.op = "make_int" /\ last'.ret = h
IncRefOf(h) ==
  \/ last'.op = "inc_ref" /\ run'.h = h
  \/ last'.op = "incRef" /\ last'.call[1] = h
DecRefOf(h) ==
  \/ last'.op = "dec_ref" /\ run'.h = h
  \/ last'.op = "decRef" /\ last'.call[1] = h
Quantity(h) ==
  Refs(h) + (IF AddReturned(h) THEN 1 ELSE 0)
          + (IF h \in Live /\ IncRefOf(h) THEN 1 ELSE 0)
          - (IF h \in Live /\ DecRefOf(h) THEN 1 ELSE 0)
Accounted(h) == h \in DOMAIN h2e' => h2e'[h].refs = Quantity(h) /\ Quantity(h) >= 1
Evicted(h) == h \in Live /\ h \notin DOMAIN h2e'
Sweeps == last'.op \in {"reset_object_map", "init_handle_table"}

\* C28 as stated: the refcount of every live handle h > 6 is the number of
\* adds that returned h plus the incRef(h) minus the decRef(h) and is at least
\* 1, and h is evicted in exactly the step in which this quantity reaches 0.
C28_Original ==
  [][\A h \in NumReserved .. MaxNext :
       /\ Accounted(h)
       /\ Evicted(h) <=> (h \in Live /\ Quantity(h) = 0)]_vars

\* C28: the refcount of every live handle h > 6 is the number of adds that
\* returned h plus the incRef(h) minus the decRef(h) and is at least 1; h is
\* evicted in the step in which this quantity reaches 0, and otherwise only
\* by a reset or by the making of a new table, which evict it whatever its
\* refcount is.
C28_Accounting ==
  [][\A h \in NumReserved .. MaxNext :
       /\ Accounted(h)
       /\ Evicted(h) <=> (h \in Live /\ (Quantity(h) = 0 \/ Sweeps))]_vars

\* A handle above 6 whose refcount was counted up and then down to 0 has
\* been evicted by the last dec_ref.
C28_Witness ==
  /\ last.op = "dec_ref"
  /\ run.h > 6
  /\ run.h \notin Live
  /\ run.incs >= 1
  /\ run.r0 + run.incs = run.decs

\* C30: the arguments of a method, constructor or function call are the
\* values their handles had when the call was made; nothing the guest does
\* while the callee runs (dec_ref to zero, reset, of the argument handles or
\* of the argument list's handle) changes what the callee reads; and when
\* the callee has returned, the result is registered and its handle is live.
Entering == frame = NoFrame /\ frame' # NoFrame
Running == frame # NoFrame /\ frame' # NoFrame
Leaving == frame # NoFrame /\ frame' = NoFrame
C30_ArgumentsByValue ==
  [][/\ Entering =>
          /\ Len(frame'.args) = Len(frame'.handles)
          /\ \A i \in DOMAIN frame'.handles :
               frame'.args[i] = HT_get(Tbl, NumVal(frame'.handles[i]))
     /\ Running => frame' = frame
     /\ Leaving =>
          /\ last'.args = frame.args
          /\ ~last'.threw
          /\ last'.ret \in DOMAIN h2e'
          /\ h2e'[last'.ret].value = last'.val
          /\ (last'.disp = "returned" /\ last'.op # "construct_new"
                /\ frame.args # <<>>) => last'.val = frame.args[1]]_vars

\* A function was called with the integer 7 at handle 8; while it ran, the
\* guest evicted handle 8; the function returned its argument, 7, which was
\* registered anew.
C30_Witness ==
  /\ last.op = "func_call"
  /\ last.disp = "returned"
  /\ last.args = <<Num(7)>>
  /\ last.val = Num(7)
  /\ last.ret > 8
  /\ last.ret \in Live
  /\ 8 \notin Live

\* C31: a callable made by emlite_val_make_callback of emlite.js never throws
\* to its host caller: when the guest dispatcher raises, or the guest calls
\* emlite_val_throw inside the callback, the callable returns an Error: the
\* thrown value itself if it is an Error, else a new Error whose cause is the
\* thrown value.
C31_CallbackNeverThrows ==
  (last.op = "jsFn" /\ build = "emlite"
     /\ heap[last.call[1]].cls = "jsFn.emlite") =>
    /\ ~last.threw
    /\ last.disp = "threw" =>
         /\ IsError(last.res, heap)
         /\ \/ last.res = last.thrown
            \/ /\ ~IsError(last.thrown, heap)
               /\ PropGet(heap, last.res, KeyCause) = last.thrown

\* The guest threw the value of a handle that is not registered, undefined,
\* and the callable returned a new Error whose cause is undefined.
C31_Witness ==
  /\ last.op = "jsFn"
  /\ last.disp = "threw"
  /\ last.thrown = Undefined
  /\ ~last.threw
  /\ IsError(last.res, heap)

\* The integer a call of a numeric constructor denotes: make_int's i32 read
\* as signed, make_uint's as unsigned, make_double's number; for the 64-bit
\* constructors the i64 read as signed (make_bigint) or unsigned
\* (make_biguint), as limbs.
NumberOps == {"make_int", "make_uint", "make_double"}
BigOps == {"make_bigint", "make_biguint"}
DenotedNumber(l) ==
  LET a == l.call[1] IN
  IF l.op = "make_int" /\ a[1] >= Limb \div 2 THEN NumW(a[1] - Limb, a[2])
  ELSE NumW(a[1], a[2])
DenotedBig(l) ==
  LET a == l.call[1] IN
  IF l.op = "make_bigint" /\ a[1] >= Limb \div 2
  THEN BigW(<<a[1] - Limb, a[2], a[3], a[4]>>)
  ELSE BigW(a)
SharesOrAllocates(x) ==
  /\ last'.val = x
  /\ h2e'[last'.ret].value = x
  /\ IF x \in DOMAIN v2h
     THEN /\ last'.ret = v2h[x]
          /\ h2e'[last'.ret].refs = h2e[last'.ret].refs + 1
          /\ next' = next
     ELSE /\ last'.ret = next
          /\ h2e'[last'.ret].refs = 1
          /\ next' = next + 1

\* C32: deduplication is by host value, not by constructor: make_int,
\* make_uint and make_double of the same integer x register the same Number
\* and so return one handle with one refcount; make_bigint and make_biguint
\* of x register the bigint x, which is not that Number, under another
\* handle that the two of them share.
C32_DedupByValue ==
  [][/\ last'.op \in NumberOps => SharesOrAllocates(DenotedNumber(last'))
     /\ last'.op \in BigOps =>
          /\ SharesOrAllocates(DenotedBig(last'))
          /\ \A h \in Live : Tag(h2e[h].value) = "number" => last'.ret # h]_vars

\* The Number 7 was registered twice and has handle 7 with refcount 2; the
\* bigint 7 was then registered by make_biguint and by make_bigint and has
\* handle 8 with refcount 2.
C32_Witness ==
  /\ last.op = "make_bigint"
  /\ last.call[1] = <<0, 0, 0, 7>>
  /\ last.ret = 8
  /\ h2e[7].value = Num(7)
  /\ h2e[7].refs = 2
  /\ h2e[8].refs = 2

\* ------------------------------------------- extraction and predicates
\* The operations that only read the table and answer with a number. An
\* answer is the integer returned (ret), the number computed (res), the
\* 64-bit pattern returned (out), or a native exception (threw): none of
\* these operations has a try.
Answer(ret) == [threw |-> FALSE, ret |-> ret, res |-> NoVal, out |-> <<>>]
Raises == [threw |-> TRUE, ret |-> -1, res |-> NoVal, out |-> <<>>]
BoolInt(b) == IF b THEN 1 ELSE 0

\* The end of such an operation: its code calls EMLITE_VALMAP.get and nothing
\* else of the table.
ReadOnly(op, in, a) ==
  /\ last' = [Result(op, a.ret, a.threw, NoVal) EXCEPT
                !.call = in, !.res = a.res, !.out = a.out]
  /\ run' = NoRun
  /\ UNCHANGED <<bridgeVars, tblVars, objVars, memVars, track, guest>>

\* ToBoolean
ToBoolean(v) ==
  ~(\/ IsNullish(v)
    \/ v = Bool(FALSE)
    \/ v = Num(0)
    \/ v = NaN
    \/ v = Str(<<>>)
    \/ v = BigW(<<0, 0, 0, 0>>))

\* The i64 pattern of a bigint, and of BigInt(n) for an integral number n.
I64OfBig(x) == [x[2] EXCEPT ![1] = @ % Limb]
I64OfNumber(n) ==
  IF n[2][1] < 0 THEN <<Limb - 1, Limb - 1, n[2][1] + Limb, n[2][2]>>
  ELSE <<0, 0, n[2][1], n[2][2]>>

\* emlite_val_get_value_bigint: a bigint is returned as it is; any other
\* value goes through BigInt(Math.trunc(Number(v))), and BigInt(NaN) throws
\* a RangeError.
GetValueBigint(v, H) ==
  IF Tag(v) = "bigint" THEN [Answer(-1) EXCEPT !.res = v, !.out = I64OfBig(v)]
  ELSE IF NumberThrows(v, H) \/ ToNumber(v, H) = NaN THEN Raises
  ELSE [Answer(-1) EXCEPT !.res = ToNumber(v, H), !.out = I64OfNumber(ToNumber(v, H))]

\* emlite_val_get_value_biguint: a negative bigint, a negative number and
\* NaN (`n >= 0` is false) are clamped to 0.
GetValueBiguint(v, H) ==
  IF Tag(v) = "bigint"
  THEN LET x == IF BigNegative(v) THEN BigW(<<0, 0, 0, 0>>) ELSE v IN
       [Answer(-1) EXCEPT !.res = x, !.out = I64OfBig(x)]
  ELSE IF NumberThrows(v, H) THEN Raises
  ELSE LET n == ToNumber(v, H)
           c == IF n = NaN \/ n[2][1] < 0 THEN Num(0) ELSE n IN
       [Answer(-1) EXCEPT !.res = c, !.out = I64OfNumber(c)]

\* emlite_val_get_value_double: Number(EMLITE_VALMAP.get(n))
GetValueDouble(v, H) ==
  IF NumberThrows(v, H) THEN Raises ELSE [Answer(-1) EXCEPT !.res = ToNumber(v, H)]

\* `typeof v === t || v instanceof T`: the model has no wrapper objects.
IsPrimitiveOrWrapper(v, H, t, T) == Tag(v) = t \/ Cls(v, H) = T

\* The handles the values are read at: undefined, true, the reserved symbol
\* and the first two handles issued.
ReadHandles == {1, 3, 6, 7, 8}

emlite_val_get_value_bigint ==
  /\ inited
  /\ \E h \in ReadHandles :
       ReadOnly("get_value_bigint", <<h>>, GetValueBigint(HT_get(Tbl, h), heap))

emlite_val_get_value_biguint ==
  /\ inited
  /\ \E h \in ReadHandles :
       ReadOnly("get_value_biguint", <<h>>, GetValueBiguint(HT_get(Tbl, h), heap))

emlite_val_get_value_double ==
  /\ inited
  /\ \E n \in ReadHandles :
       ReadOnly("get_value_double", <<n>>, GetValueDouble(HT_get(Tbl, n), heap))

emlite_val_get_value_bool ==
  /\ inited
  /\ \E h \in ReadHandles :
       ReadOnly("get_value_bool", <<h>>, Answer(BoolInt(ToBoolean(HT_get(Tbl, h)))))

emlite_val_not ==
  /\ inited
  /\ \E arg \in ReadHandles :
       ReadOnly("not", <<arg>>, Answer(BoolInt(~ToBoolean(HT_get(Tbl, arg)))))

emlite_val_is_string ==
  /\ inited
  /\ \E arg \in ReadHandles :
       ReadOnly("is_string", <<arg>>,
                Answer(BoolInt(IsPrimitiveOrWrapper(HT_get(Tbl, arg), heap,
                                                    "string", "String"))))

emlite_val_is_number ==
  /\ inited
  /\ \E arg \in ReadHandles :
       ReadOnly("is_number", <<arg>>,
                Answer(BoolInt(IsPrimitiveOrWrapper(HT_get(Tbl, arg), heap,
                                                    "number", "Number"))))

emlite_val_is_bool ==
  /\ inited
  /\ \E h \in ReadHandles :
       ReadOnly("is_bool", <<h>>,
                Answer(BoolInt(IsPrimitiveOrWrapper(HT_get(Tbl, h), heap,
                                                    "boolean", "Boolean"))))

\* s < t for strings, by code units.
RECURSIVE StrLess(_, _)
StrLess(s, t) ==
  IF t = <<>> THEN FALSE
  ELSE IF s = <<>> THEN TRUE
  ELSE IF Head(s) # Head(t) THEN Head(s) < Head(t)
  ELSE StrLess(Tail(s), Tail(t))

\* x < y for numbers with limbs: the low limb is never negative.
NumLess(x, y) ==
  \/ x[2][1] < y[2][1]
  \/ x[2][1] = y[2][1] /\ x[2][2] < y[2][2]

\* The relational operators convert an operand with ToPrimitive and, unless
\* both are then strings, with ToNumber: a TypeError for a symbol (which is
\* not a string) and for an object that cannot be converted.
CompareThrows(a, b, H) ==
  \/ StringThrows(a, H)
  \/ StringThrows(b, H)
  \/ Tag(a) = "symbol"
  \/ Tag(b) = "symbol"

\* How a stands to b: "lt", "eq", "gt", or "un" when one of them is NaN.
Compare(a, b, H) ==
  LET pa == ToPrimitive(a, H)
      pb == ToPrimitive(b, H) IN
  IF Tag(pa) = "string" /\ Tag(pb) = "string"
  THEN IF StrLess(pa[2], pb[2]) THEN "lt"
       ELSE IF StrLess(pb[2], pa[2]) THEN "gt" ELSE "eq"
  ELSE LET x == ToNumber(pa, H)
           y == ToNumber(pb, H) IN
       IF x = NaN \/ y = NaN THEN "un"
       ELSE IF NumLess(x, y) THEN "lt"
       ELSE IF NumLess(y, x) THEN "gt" ELSE "eq"

\* a > b, a >= b, a < b, a <= b
Relation(op, a, b, H) ==
  IF CompareThrows(a, b, H) THEN Raises
  ELSE Answer(BoolInt(
         CASE op = "gt" -> Compare(a, b, H) = "gt"
           [] op = "gte" -> Compare(a, b, H) \in {"gt", "eq"}
           [] op = "lt" -> Compare(a, b, H) = "lt"
           [] op = "lte" -> Compare(a, b, H) \in {"lt", "eq"}))

\* a === b: the same value (the table holds no NaN).
StrictlyEquals(a, b) == a = b

\* a == b: values of one type, and two objects, are compared as by ===;
\* null and undefined equal each other and nothing else; of the rest an
\* object becomes its primitive (a TypeError if it cannot), a symbol then
\* equals no value of another type, a boolean becomes a number, and unless
\* two strings remain both become numbers.
LooselyEquals(a, b, H) ==
  IF Tag(a) = Tag(b) \/ (IsObject(a) /\ IsObject(b)) THEN Answer(BoolInt(a = b))
  ELSE IF IsNullish(a) \/ IsNullish(b)
  THEN Answer(BoolInt(IsNullish(a) /\ IsNullish(b)))
  ELSE IF StringThrows(a, H) \/ StringThrows(b, H) THEN Raises
  ELSE IF Tag(a) = "symbol" \/ Tag(b) = "symbol" THEN Answer(0)
  ELSE LET pa == ToPrimitive(a, H)
           pb == ToPrimitive(b, H) IN
       IF Tag(pa) = "string" /\ Tag(pb) = "string" THEN Answer(BoolInt(pa = pb))
       ELSE Answer(BoolInt(/\ ToNumber(pa, H) # NaN
                           /\ ToNumber(pa, H) = ToNumber(pb, H)))

\* a instanceof b: a TypeError unless b is callable; a primitive is an
\* instance of nothing. The callable made by emlite_val_make_callback is an
\* arrow function, which has no prototype property: a TypeError for an
\* object. No object of the model was constructed by the host's function.
InstanceOf(a, b, H) ==
  IF ~IsCallable(b) THEN Raises
  ELSE IF ~IsObject(a) THEN Answer(0)
  ELSE IF Cls(b, H) # "Function" THEN Raises
  ELSE Answer(0)

\* <<a, b>>: true and false, undefined and true, null and false, the first
\* two handles issued, the second and itself, the reserved symbol and true,
\* true and the second handle issued.
CompareInputs ==
  {<<3, 2>>, <<1, 3>>, <<0, 2>>, <<7, 8>>, <<8, 8>>, <<6, 3>>, <<3, 8>>}

emlite_val_gt ==
  /\ inited
  /\ \E in \in CompareInputs :
       ReadOnly("gt", in, Relation("gt", HT_get(Tbl, in[1]), HT_get(Tbl, in[2]), heap))

emlite_val_gte ==
  /\ inited
  /\ \E in \in CompareInputs :
       ReadOnly("gte", in, Relation("gte", HT_get(Tbl, in[1]), HT_get(Tbl, in[2]), heap))

emlite_val_lt ==
  /\ inited
  /\ \E in \in CompareInputs :
       ReadOnly("lt", in, Relation("lt", HT_get(Tbl, in[1]), HT_get(Tbl, in[2]), heap))

emlite_val_lte ==
  /\ inited
  /\ \E in \in CompareInputs :
       ReadOnly("lte", in, Relation("lte", HT_get(Tbl, in[1]), HT_get(Tbl, in[2]), heap))

emlite_val_equals ==
  /\ inited
  /\ \E in \in CompareInputs :
       ReadOnly("equals", in,
                LooselyEquals(HT_get(Tbl, in[1]), HT_get(Tbl, in[2]), heap))

emlite_val_strictly_equals ==
  /\ inited
  /\ \E in \in CompareInputs :
       ReadOnly("strictly_equals", in,
                Answer(BoolInt(StrictlyEquals(HT_get(Tbl, in[1]), HT_get(Tbl, in[2])))))

emlite_val_instanceof ==
  /\ inited
  /\ \E in \in CompareInputs :
       ReadOnly("instanceof", in,
                InstanceOf(HT_get(Tbl, in[1]), HT_get(Tbl, in[2]), heap))

\* The guest of the frame scenario, in program order: on a new table it makes
\* an array (the first handle issued), the integer 7 (the second) and the
\* string "EMLITE_VALMAP", which its memory holds (the third); it pushes the
\* integer's handle, assigns true to the array's property "false" and
\* undefined to the property of globalThis the string names, and reads and
\* compares the values at any time.
Guest_make_str ==
  frame = NoFrame /\ next = NumReserved + 2 /\ emlite_val_make_str

FrameGuest ==
  [TableGuest EXCEPT !.cap = MaxNext + 1,
                     !.strs = {<<0, Len(ValmapName)>>},
                     !.pushes = {<<7, 8>>, <<8, 7>>},
                     !.sets = {<<7, 2, 3>>, <<4, 9, 1>>, <<0, 2, 3>>},
                     !.owns = {<<7, 0, Len(ValmapName)>>, <<0, 0, Len(ValmapName)>>}]

NextFrame ==
  \/ emlite_init_handle_table
  \/ Guest_new_array
  \/ Guest_make_int
  \/ Guest_make_str
  \/ emlite_val_push
  \/ emlite_val_set
  \/ emlite_val_has
  \/ emlite_val_obj_has_own_prop
  \/ emlite_val_get_value_int
  \/ emlite_val_get_value_uint
  \/ emlite_val_get_value_bigint
  \/ emlite_val_get_value_biguint
  \/ emlite_val_get_value_double
  \/ emlite_val_get_value_bool
  \/ emlite_val_not
  \/ emlite_val_is_string
  \/ emlite_val_is_number
  \/ emlite_val_is_bool
  \/ emlite_val_gt
  \/ emlite_val_gte
  \/ emlite_val_lt
  \/ emlite_val_lte
  \/ emlite_val_equals
  \/ emlite_val_strictly_equals
  \/ emlite_val_instanceof

InitFrame ==
  /\ InitBridgeWith("emlite", ValmapName)
  /\ track = FALSE
  /\ guest = FrameGuest
  /\ hasMalloc = TRUE

SpecFrame == InitFrame /\ [][NextFrame]_vars

FrameOps ==
  {"get_value_int", "get_value_uint", "get_value_bigint", "get_value_biguint",
   "get_value_double", "get_value_bool", "gt", "gte", "lt", "lte", "equals",
   "strictly_equals", "instanceof", "not", "is_string", "is_number", "is_bool",
   "has", "obj_has_own_prop", "push", "set"}

\* C33: the numeric and boolean extraction operations, the predicates,
\* emlite_val_push and emlite_val_set leave the handle table unchanged: no
\* entry is added or removed, no refcount changes and the allocation counter
\* keeps its value.
C33_FrameOfNonRegistering ==
  [][last'.op \in FrameOps => (h2e' = h2e /\ v2h' = v2h /\ next' = next)]_vars

\* The same for every call after which the operations still have their
\* table: the one call that changes it is the emlite_val_set that assigns
\* globalThis.EMLITE_VALMAP.
FrameWhileBound ==
  [][(last'.op \in FrameOps /\ inited') =>
       (h2e' = h2e /\ v2h' = v2h /\ next' = next)]_vars

\* The handle 8 was pushed onto the array 7 and its refcount is still 1.
FramePushed ==
  /\ last.op = "push"
  /\ last.call = <<7, 8>>
  /\ ~last.threw
  /\ PropGet(heap, HT_get(Tbl, 7), Str(<<48>>)) = Num(8)
  /\ HT_get(Tbl, 8) = Num(7)
  /\ Refs(8) = 1

\* emlite_val_set has assigned globalThis.EMLITE_VALMAP and the operations
\* of emlite.js have lost the table.
FrameRebound == last.op = "set" /\ last.call = <<4, 9, 1>> /\ ~inited

====
